---- MODULE Spec2Model ----
(***************************************************************************)
(* The raw-mode multiline prompt of the TODOforAI CLI (src/src/index.ts,   *)
(* readMultiline), with the terminal it writes to.  Text is a sequence of  *)
(* character codes; offsets are 0-based as in the source, so the character *)
(* at source index i is s[i + 1] here.                                     *)
(***************************************************************************)
EXTENDS Integers, Sequences, FiniteSets, TLC

VARIABLES
    prompt,      \* readMultiline's argument, as written to the terminal
    cols,        \* process.stderr.columns || 80
    buf,         \* let buf
    cursor,      \* let cursor
    pasting,     \* let pasting
    done,        \* let done
    screenRow,   \* let screenRow
    rawMode,     \* process.stdin raw mode
    flowing,     \* process.stdin resumed (not paused)
    listening,   \* onData registered as stdin "data" listener
    promise,     \* the promise readMultiline returns
    finishes,    \* how many times finish() ran past its guard
    exitBy,      \* which call of finish() ended the session
    term,        \* the terminal behind process.stderr
    redraws,     \* calls of redraw() in the latest stdin event or cancel()
    pending,     \* bytes of an input stream the terminal has not delivered yet
    kind,        \* what that stream is
    nchunks,     \* in how many chunks it has been delivered so far
    pre,         \* the editor when the stream began
    ref,         \* the editor had the whole stream arrived in one chunk
    originalContent,  \* renderDiff's first argument
    modifiedContent,  \* renderDiff's second argument
    filePath,         \* renderDiff's third argument
    diffLines,        \* const lines: DiffLine[] as renderDiff built it
    rendered,         \* renderDiff's result, the parts it joined
    returned,         \* renderDiff has returned
    loopAt,           \* where interactiveLoop stands
    wsCallback,       \* which callback the websocket holds for the todo
    buffered,         \* const buffered of the current iteration of interactiveLoop
    calls,            \* how many times watchTodo has been called
    watches,          \* the closure of every call of watchTodo
    sigintListeners,  \* process.listeners("SIGINT")
    dataListeners,    \* the "data" listeners of process.stdin, in order
    sentDecisions,    \* approvals and denials sent over the websocket
    interruptSent,    \* ws.sendInterrupt was called and not yet answered
    exited,           \* process.exit was called
    nmsgs,            \* how many messages the server has sent
    autoApprove,      \* interactiveLoop's argument autoApprove
    hist              \* what became of the messages no watchTodo handled, the inputs
                      \* api.addMessage was called with, the answers to the approval
                      \* prompts with the blocks they were for, the SIGINTs by the
                      \* watchTodo call they came in (0: none), the calls that sent
                      \* an interrupt request, and how the process exited
VARIABLES
    data,             \* ConfigStore: this.data
    saved,            \* what save() wrote to the config file last
    issued,           \* how many project ids and agent names have been used
    nsets             \* how many times a default has been set

vars == <<prompt, cols, buf, cursor, pasting, done, screenRow, rawMode, flowing,
          listening, promise, finishes, exitBy, term, redraws, pending, kind,
          nchunks, pre, ref, originalContent, modifiedContent, filePath,
          diffLines, rendered, returned, loopAt, wsCallback, buffered, calls,
          watches, sigintListeners, dataListeners, sentDecisions, interruptSent,
          exited, nmsgs, autoApprove, hist, data, saved, issued, nsets>>

watchVars == <<loopAt, wsCallback, buffered, calls, watches, sigintListeners,
               dataListeners, sentDecisions, interruptSent, exited, nmsgs,
               autoApprove, hist>>

configVars == <<data, saved, issued, nsets>>

diffVars == <<originalContent, modifiedContent, filePath, diffLines, rendered, returned>>

(***************************************************************************)
(* Bounds of the model.                                                    *)
(***************************************************************************)
MaxLen == 3      \* longest buffer the editing session grows by typing
MaxCols == 8     \* widest terminal of the editing session
MaxTyped == 4    \* longest text typed before an editing key is tried
MaxLines == 9    \* most lines of an original text given to renderDiff
MaxSites == 24   \* longest run of changed lines of a long text given to renderDiff
\* calls of watchTodo in one run
MaxCalls == 1
\* messages the server sends in one run
MaxMsgs == 3
MaxSets == 12

(***************************************************************************)
(* Character codes the source names.                                       *)
(***************************************************************************)
SOH == 1
ETX == 3
ENQ == 5
BS == 8
LF == 10
VT == 11
CR == 13
ETB == 23
ESC == 27
SP == 32
DEL == 127
LBRACKET == 91
SEMI == 59
TILDE == 126
DefaultCols == 80

Chr(s) ==
    CASE s = "0" -> 48 [] s = "1" -> 49 [] s = "2" -> 50 [] s = "3" -> 51
      [] s = "4" -> 52 [] s = "5" -> 53 [] s = "7" -> 55 [] s = "9" -> 57
      [] s = "?" -> 63 [] s = ">" -> 62
      [] s = "A" -> 65 [] s = "B" -> 66 [] s = "C" -> 67 [] s = "D" -> 68
      [] s = "F" -> 70 [] s = "G" -> 71 [] s = "H" -> 72 [] s = "J" -> 74
      [] s = "O" -> 79 [] s = "T" -> 84
      [] s = "a" -> 97 [] s = "b" -> 98 [] s = "e" -> 101 [] s = "h" -> 104
      [] s = "i" -> 105 [] s = "l" -> 108 [] s = "m" -> 109 [] s = "n" -> 110
      [] s = "[" -> 91 [] s = ";" -> 59 [] s = "~" -> 126 [] s = " " -> 32

PasteStartMarker == <<ESC, LBRACKET, Chr("2"), Chr("0"), Chr("0"), TILDE>>
PasteEndMarker == <<ESC, LBRACKET, Chr("2"), Chr("0"), Chr("1"), TILDE>>

\* "\x1b[97mTODO>\x1b[0m "
TodoPrompt ==
    <<ESC, LBRACKET, Chr("9"), Chr("7"), Chr("m"),
      Chr("T"), Chr("O"), Chr("D"), Chr("O"), Chr(">"),
      ESC, LBRACKET, Chr("0"), Chr("m"), SP>>

(***************************************************************************)
(* JavaScript string primitives the editor uses.                           *)
(***************************************************************************)
Min(a, b) == IF a <= b THEN a ELSE b
Max(a, b) == IF a >= b THEN a ELSE b

\* s.slice(a, b) and s.slice(a), arguments clamped to the string
Slice(s, a, b) ==
    LET lo == Max(0, Min(a, Len(s)))
        hi == Max(0, Min(b, Len(s)))
    IN  SubSeq(s, lo + 1, hi)
SliceFrom(s, a) == Slice(s, a, Len(s))

\* s.indexOf(pat): first 0-based index of pat, -1 when absent
LeastOr(hits, none) == IF hits = {} THEN none ELSE CHOOSE i \in hits : \A j \in hits : i <= j
GreatestOr(hits, none) == IF hits = {} THEN none ELSE CHOOSE i \in hits : \A j \in hits : i >= j
IndexOf(s, pat) ==
    LeastOr({i \in 0..(Len(s) - Len(pat)) : SubSeq(s, i + 1, i + Len(pat)) = pat}, -1)

\* s.lastIndexOf(ch, from): last index <= from holding ch; a negative
\* position is clamped to 0, as String.prototype.lastIndexOf does
LastIndexOf(s, ch, from) ==
    GreatestOr({i \in 0..Max(0, Min(from, Len(s) - 1)) : i < Len(s) /\ s[i + 1] = ch}, -1)

\* s.split(sep) for a one-character separator: always at least one part.
\* The parts of a string are those of its two halves, the last part of the
\* first half and the first part of the second being one part.
RECURSIVE Split(_, _)
SplitAt(l, r) == SubSeq(l, 1, Len(l) - 1) \o <<l[Len(l)] \o r[1]>> \o Tail(r)
Split(s, sep) ==
    IF s = <<>> THEN << <<>> >>
    ELSE IF Len(s) = 1 THEN (IF s[1] = sep THEN << <<>>, <<>> >> ELSE <<s>>)
    ELSE SplitAt(Split(SubSeq(s, 1, Len(s) \div 2), sep),
                 Split(SubSeq(s, Len(s) \div 2 + 1, Len(s)), sep))

\* s.replace(/\r\n|\n/g, "\n"): a lone CR is kept
RECURSIVE NormalizeKeepsLoneCr(_)
NormalizeKeepsLoneCr(s) ==
    IF s = <<>> THEN <<>>
    ELSE IF s[1] = CR /\ Len(s) >= 2 /\ s[2] = LF
         THEN <<LF>> \o NormalizeKeepsLoneCr(SliceFrom(s, 2))
         ELSE <<s[1]>> \o NormalizeKeepsLoneCr(Tail(s))

\* s.replace(/\r\n?|\n/g, "\n")
RECURSIVE NormalizeNewlines(_)
NormalizeNewlines(s) ==
    IF s = <<>> THEN <<>>
    ELSE IF s[1] = CR
         THEN IF Len(s) >= 2 /\ s[2] = LF
              THEN <<LF>> \o NormalizeNewlines(SliceFrom(s, 2))
              ELSE <<LF>> \o NormalizeNewlines(Tail(s))
         ELSE <<s[1]>> \o NormalizeNewlines(Tail(s))

\* s.replace(/\n/g, "\r\n")
RECURSIVE CrLf(_)
CrLf(s) ==
    IF s = <<>> THEN <<>>
    ELSE (IF s[1] = LF THEN <<CR, LF>> ELSE <<s[1]>>) \o CrLf(Tail(s))

IsParamByte(b) == (b >= 48 /\ b <= 57) \/ b = SEMI      \* /[0-9;]/

\* parseInt of a string of digits; NaN (the empty string) is -1 here
RECURSIVE DigitsValue(_, _)
DigitsValue(s, acc) ==
    IF s = <<>> THEN acc ELSE DigitsValue(Tail(s), acc * 10 + (s[1] - 48))
ParseInt(s) == IF s = <<>> THEN -1 ELSE DigitsValue(s, 0)

\* `${n}` for n >= 0
RECURSIVE Decimal(_)
Decimal(n) == IF n < 10 THEN <<48 + n>> ELSE Decimal(n \div 10) \o <<48 + (n % 10)>>

\* the % of JavaScript: the sign of the result is the dividend's
JsRem(a, b) == IF a >= 0 THEN a % b ELSE 0 - ((0 - a) % b)

CeilDiv(a, b) == (a + b - 1) \div b                      \* Math.ceil(a / b), a >= 0

\* prompt.replace(/\x1b\[[0-9;]*m/g, "")
RECURSIVE SgrEnd(_, _)
SgrEnd(s, i) ==
    IF i < Len(s) /\ IsParamByte(s[i + 1]) THEN SgrEnd(s, i + 1) ELSE i
RECURSIVE StripAnsi(_)
StripSgr(s, end) ==
    IF end < Len(s) /\ s[end + 1] = Chr("m")
    THEN StripAnsi(SliceFrom(s, end + 1))
    ELSE <<s[1]>> \o StripAnsi(Tail(s))
StripAnsi(s) ==
    IF s = <<>> THEN <<>>
    ELSE IF s[1] = ESC /\ Len(s) >= 2 /\ s[2] = LBRACKET THEN StripSgr(s, SgrEnd(s, 2))
    ELSE <<s[1]>> \o StripAnsi(Tail(s))
promptLen == Len(StripAnsi(prompt))

(***************************************************************************)
(* Terminal geometry: rowOf, colOf, totalRows.  e is the editor's state,   *)
(* a record of the closure variables of readMultiline.                     *)
(***************************************************************************)
\* one pass of rowOf's for loop: the rows lines[i..] add
\* the length rowOf and totalRows give line i: the prompt counts on line 0
LineLen(lines, i) == (IF i = 0 THEN promptLen ELSE 0) + Len(lines[i + 1])

\* rowOf with the cursor line wrapping as soon as a row is full
RowOfLineEagerWrap(len, isLast) ==
    IF ~isLast
    THEN (IF len = 0 THEN 1 ELSE CeilDiv(len, cols))
    ELSE len \div cols

RowOfLine(len, isLast) ==
    IF ~isLast
    THEN (IF len = 0 THEN 1 ELSE CeilDiv(len, cols))
    ELSE (IF len > 0 THEN CeilDiv(len, cols) - 1 ELSE 0)

RECURSIVE RowOfFrom(_, _)
RowOfFrom(lines, i) ==
    IF i >= Len(lines) THEN 0
    ELSE RowOfLine(LineLen(lines, i), i = Len(lines) - 1) + RowOfFrom(lines, i + 1)

RowOf(e, pos) == RowOfFrom(Split(Slice(e.buf, 0, pos), LF), 0)

LineStart(b, pos) == LastIndexOf(b, LF, pos - 1) + 1
LinePos(pos, lineStart) == (IF lineStart = 0 THEN promptLen ELSE 0) + (pos - lineStart)
ColAt(linePos) ==
    IF linePos > 0 /\ JsRem(linePos, cols) = 0 THEN cols ELSE JsRem(linePos, cols)

ColOf(e, pos) == ColAt(LinePos(pos, LineStart(e.buf, pos)))

TotalRowsLine(len) == IF len = 0 THEN 1 ELSE CeilDiv(len, cols)

RECURSIVE TotalRowsFrom(_, _)
TotalRowsFrom(lines, i) ==
    IF i >= Len(lines) THEN 0
    ELSE TotalRowsLine(LineLen(lines, i)) + TotalRowsFrom(lines, i + 1)

TotalRows(e) == TotalRowsFrom(Split(e.buf, LF), 0)

(***************************************************************************)
(* The terminal: a cursor on a grid cols wide, unbounded above and below,  *)
(* with deferred wrap (a character written in the last column leaves the   *)
(* cursor there, and the next character first moves to the next row).  It  *)
(* parses what the editor writes: C0 controls, ESC x, CSI sequences.       *)
(* Rows count from the row the cursor was on when the prompt was written.  *)
(***************************************************************************)
Term0 ==
    [row |-> 0, col |-> 0, wrap |-> FALSE, mode |-> "ground", params |-> <<>>,
     bracketed |-> FALSE, clearRow |-> 0]

Csi(params, final) == <<ESC, LBRACKET>> \o params \o <<Chr(final)>>

TermAdvance(u) ==
    IF u.col >= cols - 1 THEN [u EXCEPT !.wrap = TRUE] ELSE [u EXCEPT !.col = @ + 1]
TermPrint(t) ==
    TermAdvance(IF t.wrap THEN [t EXCEPT !.row = @ + 1, !.col = 0, !.wrap = FALSE] ELSE t)

TermControl(t, b) ==
    IF b = CR THEN [t EXCEPT !.col = 0, !.wrap = FALSE]
    ELSE IF b = LF \/ b = VT THEN [t EXCEPT !.row = @ + 1, !.wrap = FALSE]
    ELSE IF b = BS THEN [t EXCEPT !.col = Max(0, @ - 1), !.wrap = FALSE]
    ELSE t

AllDigits(s) == \A i \in 1..Len(s) : s[i] >= 48 /\ s[i] <= 57

\* a CSI sequence's first numeric parameter, 1 when missing or 0
TermParamOf(first) ==
    IF first # <<>> /\ AllDigits(first) /\ ParseInt(first) > 0 THEN ParseInt(first) ELSE 1
TermParam(params) == TermParamOf(Split(params, SEMI)[1])

BracketedPasteMode == <<Chr("?"), Chr("2"), Chr("0"), Chr("0"), Chr("4")>>

\* the sequence CSI params final, n its first parameter, on terminal g
TermCsi(g, final, n, params) ==
    IF final = Chr("A") THEN [g EXCEPT !.row = @ - n, !.wrap = FALSE]
    ELSE IF final = Chr("B") THEN [g EXCEPT !.row = @ + n, !.wrap = FALSE]
    ELSE IF final = Chr("C") THEN [g EXCEPT !.col = Min(@ + n, cols - 1), !.wrap = FALSE]
    ELSE IF final = Chr("D") THEN [g EXCEPT !.col = Max(@ - n, 0), !.wrap = FALSE]
    ELSE IF final = Chr("G") THEN [g EXCEPT !.col = Min(n, cols) - 1, !.wrap = FALSE]
    ELSE IF final = Chr("J") THEN [g EXCEPT !.clearRow = g.row]
    ELSE IF final = Chr("h") /\ params = BracketedPasteMode THEN [g EXCEPT !.bracketed = TRUE]
    ELSE IF final = Chr("l") /\ params = BracketedPasteMode THEN [g EXCEPT !.bracketed = FALSE]
    ELSE g

TermDispatch(t, final) ==
    TermCsi([t EXCEPT !.mode = "ground", !.params = <<>>], final, TermParam(t.params), t.params)

TermByte(t, b) ==
    IF b = ESC THEN [t EXCEPT !.mode = "esc", !.params = <<>>]
    ELSE IF b < SP \/ b = DEL THEN TermControl(t, b)
    ELSE IF t.mode = "ground" THEN TermPrint(t)
    ELSE IF t.mode = "esc"
         THEN (IF b = LBRACKET THEN [t EXCEPT !.mode = "csi"] ELSE [t EXCEPT !.mode = "ground"])
    ELSE IF b >= 48 /\ b <= 63 THEN [t EXCEPT !.params = Append(@, b)]
    ELSE IF b >= 64 THEN TermDispatch(t, b)
    ELSE t

\* out.write(bytes): the terminal after taking the bytes in order (each
\* intermediate terminal is bound as a value before the next byte is taken)
RECURSIVE TermWrite(_, _)
TermWrite(t, bytes) ==
    IF bytes = <<>> THEN t
    ELSE CHOOSE r \in {TermWrite(u, Tail(bytes)) : u \in {TermByte(t, bytes[1])}} : TRUE

EnableBracketedPaste == Csi(BracketedPasteMode, "h")      \* "\x1b[?2004h"
DisableBracketedPaste == Csi(BracketedPasteMode, "l")     \* "\x1b[?2004l"

(***************************************************************************)
(* redraw and finish.                                                      *)
(***************************************************************************)
\* redraw's first writes: to the prompt's first row, clear, repaint
ToStart(e) ==
    <<CR>>
    \o (IF e.screenRow > 0 THEN Csi(Decimal(e.screenRow), "A") ELSE <<>>)
    \o Csi(<<>>, "J")
    \o prompt \o CrLf(e.buf)

\* redraw's last writes: from the end of the content to the cursor
ToCursor(rowsBack, col) ==
    (IF rowsBack > 0 THEN Csi(Decimal(rowsBack), "A") ELSE <<>>)
    \o (IF col <= cols
        THEN <<CR>>
             \o (IF col > 0 /\ col < cols THEN Csi(Decimal(col), "C") ELSE <<>>)
             \o (IF col = cols THEN Csi(Decimal(cols), "G") ELSE <<>>)
        ELSE <<>>)

RedrawTo(e, targetRow, endRow, col) ==
    [e EXCEPT !.term = TermWrite(@, ToStart(e) \o ToCursor(endRow - targetRow, col)),
              !.screenRow = targetRow,
              !.redraws = @ + 1]

Redraw(e) == RedrawTo(e, RowOf(e, e.cursor), TotalRows(e) - 1, ColOf(e, e.cursor))

IsSpace(b) == b \in {9, LF, VT, 12, CR, SP}
RECURSIVE TrimStart(_)
TrimStart(s) == IF s # <<>> /\ IsSpace(s[1]) THEN TrimStart(Tail(s)) ELSE s
RECURSIVE TrimEnd(_)
TrimEnd(s) == IF s # <<>> /\ IsSpace(s[Len(s)]) THEN TrimEnd(SubSeq(s, 1, Len(s) - 1)) ELSE s
Trim(s) == TrimEnd(TrimStart(s))                          \* s.trim()

Pending == [state |-> "pending", value |-> <<>>, error |-> ""]
Resolve(p, v) == IF p.state = "pending" THEN [state |-> "resolved", value |-> v, error |-> ""] ELSE p
Reject(p, msg) == IF p.state = "pending" THEN [state |-> "rejected", value |-> <<>>, error |-> msg] ELSE p

FinishOut(rowsDown) ==
    (IF rowsDown > 0 THEN Csi(Decimal(rowsDown), "B") ELSE <<>>)
    \o DisableBracketedPaste \o <<LF>>

\* finish leaving raw mode on
FinishKeepsRawMode(e, cancelled) ==
    IF e.done THEN e
    ELSE [e EXCEPT !.done = TRUE,
                   !.finishes = @ + 1,
                   !.term = TermWrite(@, FinishOut(TotalRows(e) - 1 - e.screenRow)),
                   !.flowing = FALSE,
                   !.listening = FALSE,
                   !.promise = IF cancelled THEN Reject(@, "cancelled")
                               ELSE Resolve(@, Trim(e.buf))]

\* finish resolving with the buffer as it is, untrimmed
FinishUntrimmed(e, cancelled) ==
    IF e.done THEN e
    ELSE [e EXCEPT !.done = TRUE,
                   !.finishes = @ + 1,
                   !.term = TermWrite(@, FinishOut(TotalRows(e) - 1 - e.screenRow)),
                   !.rawMode = FALSE,
                   !.flowing = FALSE,
                   !.listening = FALSE,
                   !.promise = IF cancelled THEN Reject(@, "cancelled")
                               ELSE Resolve(@, e.buf)]

\* finish without its done guard
FinishUnguarded(e, cancelled) ==
    [e EXCEPT !.done = TRUE,
              !.finishes = @ + 1,
              !.term = TermWrite(@, FinishOut(TotalRows(e) - 1 - e.screenRow)),
              !.rawMode = FALSE,
              !.flowing = FALSE,
              !.listening = FALSE,
              !.promise = IF cancelled THEN Reject(@, "cancelled")
                          ELSE Resolve(@, Trim(e.buf))]

Finish(e, cancelled) ==
    IF e.done THEN e
    ELSE [e EXCEPT !.done = TRUE,
                   !.finishes = @ + 1,
                   !.term = TermWrite(@, FinishOut(TotalRows(e) - 1 - e.screenRow)),
                   !.rawMode = FALSE,
                   !.flowing = FALSE,
                   !.listening = FALSE,
                   !.promise = IF cancelled THEN Reject(@, "cancelled")
                               ELSE Resolve(@, Trim(e.buf))]

\* which call of finish() ended the session: n is the state after the call at e
EndedBy(n, e, how) == IF e.done THEN n ELSE [n EXCEPT !.exitBy = how]

(***************************************************************************)
(* Editing operations.                                                     *)
(***************************************************************************)
InsertAt(b, at, text) == Slice(b, 0, at) \o text \o SliceFrom(b, at)

RECURSIVE SkipRight(_, _, _)
SkipRight(b, p, spaces) ==
    IF p < Len(b) /\ ((b[p + 1] = SP) = spaces) THEN SkipRight(b, p + 1, spaces) ELSE p
\* the backward scan with its bound off by one: it never reaches offset 0
RECURSIVE SkipLeftStopsAtOne(_, _, _)
SkipLeftStopsAtOne(b, p, spaces) ==
    IF p > 1 /\ ((b[p] = SP) = spaces) THEN SkipLeftStopsAtOne(b, p - 1, spaces) ELSE p

RECURSIVE SkipLeft(_, _, _)
SkipLeft(b, p, spaces) ==
    IF p > 0 /\ ((b[p] = SP) = spaces) THEN SkipLeft(b, p - 1, spaces) ELSE p

WordRight(e) == SkipRight(e.buf, SkipRight(e.buf, e.cursor, TRUE), FALSE)
WordLeft(e) == SkipLeft(e.buf, SkipLeft(e.buf, e.cursor, TRUE), FALSE)

\* killToEnd as its comment has it: to the end of the cursor's line only
KillLine(e, k) ==
    Redraw([e EXCEPT !.buf = Slice(@, 0, e.cursor)
                             \o (IF k < 0 THEN <<>> ELSE SliceFrom(@, e.cursor + k))])
KillToEndOfLine(e) == KillLine(e, IndexOf(SliceFrom(e.buf, e.cursor), <<LF>>))

KillToEnd(e) == Redraw([e EXCEPT !.buf = Slice(@, 0, e.cursor)])

\* deleteWordBack without its redraw()
DeleteBackToNoRedraw(e, to) ==
    IF to = e.cursor THEN e
    ELSE [e EXCEPT !.buf = Slice(e.buf, 0, to) \o SliceFrom(e.buf, e.cursor),
                   !.cursor = to]

DeleteBackTo(e, to) ==
    IF to = e.cursor THEN e
    ELSE Redraw([e EXCEPT !.buf = Slice(e.buf, 0, to) \o SliceFrom(e.buf, e.cursor),
                          !.cursor = to])
DeleteWordBack(e) == DeleteBackTo(e, WordLeft(e))

\* backspace without its cursor > 0 test
BackspaceUnguarded(e) ==
    Redraw([e EXCEPT !.buf = Slice(e.buf, 0, e.cursor - 1) \o SliceFrom(e.buf, e.cursor),
                     !.cursor = @ - 1])

Backspace(e) ==
    IF e.cursor > 0
    THEN Redraw([e EXCEPT !.buf = Slice(e.buf, 0, e.cursor - 1) \o SliceFrom(e.buf, e.cursor),
                          !.cursor = @ - 1])
    ELSE e

InsertChar(e, c) == Redraw([e EXCEPT !.buf = InsertAt(e.buf, e.cursor, <<c>>), !.cursor = @ + 1])

(***************************************************************************)
(* handleCSI(chunk, start): the editor after the sequence and the index    *)
(* after it.                                                               *)
(***************************************************************************)
RECURSIVE ParamEnd(_, _)
ParamEnd(chunk, i) ==
    IF i < Len(chunk) /\ IsParamByte(chunk[i + 1]) THEN ParamEnd(chunk, i + 1) ELSE i

CsiKey(e, final, code, ctrl) ==
    IF final = <<Chr("D")>>
    THEN (IF ctrl THEN Redraw([e EXCEPT !.cursor = WordLeft(e)])
          ELSE IF e.cursor > 0 THEN Redraw([e EXCEPT !.cursor = @ - 1])
          ELSE e)
    ELSE IF final = <<Chr("C")>>
    THEN (IF ctrl THEN Redraw([e EXCEPT !.cursor = WordRight(e)])
          ELSE IF e.cursor < Len(e.buf) THEN Redraw([e EXCEPT !.cursor = @ + 1])
          ELSE e)
    ELSE IF final = <<Chr("H")>> THEN Redraw([e EXCEPT !.cursor = 0])
    ELSE IF final = <<Chr("F")>> THEN Redraw([e EXCEPT !.cursor = Len(e.buf)])
    ELSE IF final = <<TILDE>>
    THEN (IF code = <<Chr("3")>> /\ e.cursor < Len(e.buf)
          THEN Redraw([e EXCEPT !.buf = Slice(e.buf, 0, e.cursor) \o SliceFrom(e.buf, e.cursor + 1)])
          ELSE e)
    ELSE e

\* the sequence whose parameter bytes are chunk[from .. pend - 1]
CsiParsed(e, final, parts) ==
    CsiKey(e, final, parts[1], (IF Len(parts) > 1 THEN ParseInt(parts[2]) ELSE 0) = 5)
\* a parser that leaves the final byte of the sequence in the chunk
CsiAtFinalKept(e, chunk, from, pend) ==
    [e |-> CsiParsed(e, IF pend < Len(chunk) THEN <<chunk[pend + 1]>> ELSE <<>>,
                     Split(Slice(chunk, from, pend), SEMI)),
     i |-> pend]
CsiAt(e, chunk, from, pend) ==
    [e |-> CsiParsed(e, IF pend < Len(chunk) THEN <<chunk[pend + 1]>> ELSE <<>>,
                     Split(Slice(chunk, from, pend), SEMI)),
     i |-> pend + 1]

\* a parser that skips only the ESC when no "[" follows
HandleCSIEscOnly(e, chunk, start) ==
    IF start + 1 >= Len(chunk) \/ chunk[start + 2] # LBRACKET
    THEN [e |-> e, i |-> start + 1]
    ELSE CsiAt(e, chunk, start + 2, ParamEnd(chunk, start + 2))
HandleCSI(e, chunk, start) ==
    IF start + 1 >= Len(chunk) \/ chunk[start + 2] # LBRACKET
    THEN [e |-> e, i |-> IF start + 1 < Len(chunk) THEN start + 2 ELSE start + 1]
    ELSE CsiAt(e, chunk, start + 2, ParamEnd(chunk, start + 2))

(***************************************************************************)
(* onData: the non-paste for loop over the chunk, and the while loop.      *)
(* ret says that the handler returned from inside the loop (after finish). *)
(***************************************************************************)
RECURSIVE KeyLoop(_, _, _)
AfterCsi(r, chunk) == KeyLoop(r.e, chunk, r.i)
\* a key handler without the test for ESC + CR
OnKeyNoAltEnter(e, chunk, i, c) ==
    IF c = ETX THEN [e |-> EndedBy(Finish(e, TRUE), e, "ctrlc"), ret |-> TRUE]
    ELSE IF c = CR \/ c = LF THEN [e |-> EndedBy(Finish(e, FALSE), e, "enter"), ret |-> TRUE]
    ELSE IF c = ETB THEN KeyLoop(DeleteWordBack(e), chunk, i + 1)
    ELSE IF c = VT THEN KeyLoop(KillToEnd(e), chunk, i + 1)
    ELSE IF c = DEL \/ c = BS THEN KeyLoop(Backspace(e), chunk, i + 1)
    ELSE IF c = ESC THEN AfterCsi(HandleCSI(e, chunk, i), chunk)
    ELSE IF c = SOH THEN KeyLoop(Redraw([e EXCEPT !.cursor = 0]), chunk, i + 1)
    ELSE IF c = ENQ THEN KeyLoop(Redraw([e EXCEPT !.cursor = Len(e.buf)]), chunk, i + 1)
    ELSE IF c >= SP THEN KeyLoop(InsertChar(e, c), chunk, i + 1)
    ELSE KeyLoop(e, chunk, i + 1)
OnKey(e, chunk, i, c) ==
    IF c = ETX THEN [e |-> EndedBy(Finish(e, TRUE), e, "ctrlc"), ret |-> TRUE]
    ELSE IF c = CR \/ c = LF THEN [e |-> EndedBy(Finish(e, FALSE), e, "enter"), ret |-> TRUE]
    ELSE IF c = ETB THEN KeyLoop(DeleteWordBack(e), chunk, i + 1)
    ELSE IF c = VT THEN KeyLoop(KillToEnd(e), chunk, i + 1)
    ELSE IF c = DEL \/ c = BS THEN KeyLoop(Backspace(e), chunk, i + 1)
    ELSE IF c = ESC
         THEN IF i + 1 < Len(chunk) /\ chunk[i + 2] = CR
              THEN KeyLoop(InsertChar(e, LF), chunk, i + 2)
              ELSE AfterCsi(HandleCSI(e, chunk, i), chunk)
    ELSE IF c = SOH THEN KeyLoop(Redraw([e EXCEPT !.cursor = 0]), chunk, i + 1)
    ELSE IF c = ENQ THEN KeyLoop(Redraw([e EXCEPT !.cursor = Len(e.buf)]), chunk, i + 1)
    ELSE IF c >= SP THEN KeyLoop(InsertChar(e, c), chunk, i + 1)
    ELSE KeyLoop(e, chunk, i + 1)
KeyLoop(e, chunk, i) ==
    IF i >= Len(chunk) \/ e.done THEN [e |-> e, ret |-> FALSE]
    ELSE OnKey(e, chunk, i, chunk[i + 1])

PasteText(e, text) ==
    [e EXCEPT !.buf = InsertAt(e.buf, e.cursor, text), !.cursor = @ + Len(text)]

RECURSIVE OnData(_, _)
\* the pasting branch, end the index of the end marker in s
OnPaste(e, s, end) ==
    IF end >= 0
    THEN OnData(Redraw([PasteText(e, NormalizeNewlines(Slice(s, 0, end)))
                           EXCEPT !.pasting = FALSE]),
                SliceFrom(s, end + 6))
    ELSE Redraw(PasteText(e, NormalizeNewlines(s)))
\* after the for loop, r what it left
AfterKeys(r, s, ps) ==
    IF r.ret THEN r.e
    ELSE IF ps >= 0 THEN OnData([r.e EXCEPT !.pasting = TRUE], SliceFrom(s, ps + 6))
    ELSE r.e
\* the non-pasting branch, ps the index of the start marker in s
OnKeys(e, s, ps) == AfterKeys(KeyLoop(e, IF ps >= 0 THEN Slice(s, 0, ps) ELSE s, 0), s, ps)
OnData(e, s) ==
    IF Len(s) = 0 \/ e.done THEN e
    ELSE IF e.pasting THEN OnPaste(e, s, IndexOf(s, PasteEndMarker))
    ELSE OnKeys(e, s, IndexOf(s, PasteStartMarker))

\* process.stdin emits "data": only registered listeners are called
Emit(e, s) ==
    IF e.listening /\ e.flowing THEN OnData([e EXCEPT !.redraws = 0], s)
    ELSE [e EXCEPT !.redraws = 0]

\* cancelFn = () => finish(true)
CancelFn(e) == [EndedBy(Finish(e, TRUE), e, "cancel") EXCEPT !.redraws = 0]

(***************************************************************************)
(* The editing session as a state machine.                                 *)
(***************************************************************************)
Cur ==
    [buf |-> buf, cursor |-> cursor, pasting |-> pasting, done |-> done,
     screenRow |-> screenRow, rawMode |-> rawMode, flowing |-> flowing,
     listening |-> listening, promise |-> promise, finishes |-> finishes,
     exitBy |-> exitBy, term |-> term, redraws |-> redraws]

Becomes(e) ==
    /\ buf' = e.buf
    /\ cursor' = e.cursor
    /\ pasting' = e.pasting
    /\ done' = e.done
    /\ screenRow' = e.screenRow
    /\ rawMode' = e.rawMode
    /\ flowing' = e.flowing
    /\ listening' = e.listening
    /\ promise' = e.promise
    /\ finishes' = e.finishes
    /\ exitBy' = e.exitBy
    /\ term' = e.term
    /\ redraws' = e.redraws

Is(e) ==
    /\ buf = e.buf
    /\ cursor = e.cursor
    /\ pasting = e.pasting
    /\ done = e.done
    /\ screenRow = e.screenRow
    /\ rawMode = e.rawMode
    /\ flowing = e.flowing
    /\ listening = e.listening
    /\ promise = e.promise
    /\ finishes = e.finishes
    /\ exitBy = e.exitBy
    /\ term = e.term
    /\ redraws = e.redraws

\* readMultiline(prompt) up to its return: the state a session starts in
Fresh ==
    [buf |-> <<>>, cursor |-> 0, pasting |-> FALSE, done |-> FALSE, screenRow |-> 0,
     rawMode |-> TRUE, flowing |-> TRUE, listening |-> TRUE, promise |-> Pending,
     finishes |-> 0, exitBy |-> "none", redraws |-> 0,
     term |-> TermWrite(TermWrite(Term0, prompt), EnableBracketedPaste)]

Started == Is(Fresh)

\* what of the editor an input stream can change
Seen(e) == [buf |-> e.buf, cursor |-> e.cursor, pasting |-> e.pasting, done |-> e.done]

NoStream ==
    /\ pending = <<>>
    /\ kind = "none"
    /\ nchunks = 0
    /\ pre = [buf |-> <<>>, cursor |-> 0, text |-> <<>>]
    /\ ref = Seen(Fresh)

\* the closure of a call of watchTodo that has not been made
NoCall ==
    [pendingBlocks |-> <<>>, approvalPromptActive |-> FALSE, approveAll |-> FALSE,
     interruptCount |-> 0, origHandler |-> <<>>, blocks |-> <<>>, at |-> "none",
     handled |-> <<>>, awaited |-> <<>>, replayMessages |-> <<>>, result |-> "none"]

\* interactiveLoop not entered
\* null, and an argument that was not given
Null == 0
\* defaultConfig()
DefaultConfig ==
    [default_project_id |-> Null, default_project_name |-> Null,
     default_agent_name |-> Null, default_agent_settings |-> Null,
     default_agent_settings_updated_at |-> Null, default_api_url |-> Null,
     default_api_key |-> Null, recent_projects |-> <<>>, recent_agents |-> <<>>,
     last_todo_id |-> Null]

\* a ConfigStore constructed for a path without a file
NoConfig ==
    /\ data = DefaultConfig
    /\ saved = Null
    /\ issued = [projects |-> 0, agents |-> 0]
    /\ nsets = 0

\* nothing has happened yet
NoHistory ==
    [discarded |-> <<>>, dropped |-> {}, sent |-> <<>>, answers |-> <<>>,
     signals |-> <<>>, interrupts |-> <<>>, exit |-> "none"]

NoWatch ==
    /\ loopAt = "off"
    /\ wsCallback = "none"
    /\ buffered = <<>>
    /\ calls = 0
    /\ watches = [i \in 1..MaxCalls |-> NoCall]
    /\ sigintListeners = <<>>
    /\ dataListeners = <<>>
    /\ sentDecisions = <<>>
    /\ interruptSent = FALSE
    /\ exited = FALSE
    /\ nmsgs = 0
    /\ autoApprove = FALSE
    /\ hist = NoHistory

\* renderDiff not called
NoDiff ==
    /\ originalContent = <<>>
    /\ modifiedContent = <<>>
    /\ filePath = <<>>
    /\ diffLines = <<>>
    /\ rendered = <<>>
    /\ returned = FALSE

Prompts == {<<>>, TodoPrompt}

Init ==
    /\ prompt \in Prompts
    /\ cols \in 1..MaxCols
    /\ Started
    /\ NoStream
    /\ NoConfig
    /\ NoWatch
    /\ NoDiff

Frame == UNCHANGED <<prompt, cols, pending, kind, nchunks, pre, ref, diffVars, watchVars, configVars>>

\* one chunk of input that holds the bytes of one key
Key(bytes) == ~done /\ ~pasting /\ Becomes(Emit(Cur, bytes)) /\ Frame

Room(n) == Len(buf) + n <= MaxLen

TypeChar == \E c \in {Chr("a"), SP} : Room(1) /\ Key(<<c>>)
AltEnter == Room(1) /\ Key(<<ESC, CR>>)
BackspaceKey == \E c \in {DEL, BS} : Key(<<c>>)
DeleteKey == Key(Csi(<<Chr("3")>>, "~"))
CtrlW == Key(<<ETB>>)
CtrlK == Key(<<VT>>)
ArrowLeft == Key(Csi(<<>>, "D"))
ArrowRight == Key(Csi(<<>>, "C"))
CtrlLeft == Key(Csi(<<Chr("1"), SEMI, Chr("5")>>, "D"))
CtrlRight == Key(Csi(<<Chr("1"), SEMI, Chr("5")>>, "C"))
HomeKey == Key(Csi(<<>>, "H")) \/ Key(<<SOH>>)
EndKey == Key(Csi(<<>>, "F")) \/ Key(<<ENQ>>)
EnterKey == \E c \in {CR, LF} : Key(<<c>>)
CtrlC == Key(<<ETX>>)

\* a bracketed paste, whole or in chunks cut at the markers
PastedTexts == {<<Chr("a")>>, <<LF>>, <<CR>>, <<CR, LF>>, <<SP, CR, Chr("a")>>}
PasteWhole ==
    \E t \in PastedTexts :
        Room(Len(t)) /\ Key(PasteStartMarker \o t \o PasteEndMarker)
PasteBegin == Key(PasteStartMarker)
PasteChunk ==
    \E t \in PastedTexts :
        ~done /\ pasting /\ Room(Len(t)) /\ Becomes(Emit(Cur, t)) /\ Frame
PasteEnd == ~done /\ pasting /\ Becomes(Emit(Cur, PasteEndMarker)) /\ Frame

\* cancel(), at any time, also after the session ended
Cancel == Becomes(CancelFn(Cur)) /\ Frame

\* input after the session ended
LateData ==
    \E s \in {<<Chr("a")>>, <<CR>>, <<ETX>>} : done /\ Becomes(Emit(Cur, s)) /\ Frame

Next ==
    \/ TypeChar \/ AltEnter \/ BackspaceKey \/ DeleteKey \/ CtrlW \/ CtrlK
    \/ ArrowLeft \/ ArrowRight \/ CtrlLeft \/ CtrlRight \/ HomeKey \/ EndKey
    \/ EnterKey \/ CtrlC
    \/ PasteWhole \/ PasteBegin \/ PasteChunk \/ PasteEnd
    \/ Cancel \/ LateData

Spec == Init /\ [][Next]_vars

(***************************************************************************)
(* One input stream reaching the editor in chunks cut anywhere: the bytes  *)
(* of a bracketed paste or of one key's escape sequence.  The session is   *)
(* at the default width with some text typed; ref is where the editor      *)
(* would be had the stream arrived whole.                                  *)
(***************************************************************************)
\* the editor after the chunks, each delivered on its own
RECURSIVE Typed(_, _)
Typed(e, chunks) ==
    IF chunks = <<>> THEN e
    ELSE CHOOSE r \in {Typed(n, Tail(chunks)) : n \in {Emit(e, chunks[1])}} : TRUE

Line1Line2 ==
    <<Chr("l"), Chr("i"), Chr("n"), Chr("e"), Chr("1"), LF,
      Chr("l"), Chr("i"), Chr("n"), Chr("e"), Chr("2")>>

TypedBefore ==
    { <<>>,
      << <<Chr("a")>> >>,
      << <<Chr("a")>>, <<Chr("b")>>, Csi(<<>>, "D") >>,
      << <<Chr("a")>>, <<SP>>, <<Chr("b")>>, Csi(<<>>, "D"), Csi(<<>>, "D") >> }

PasteStreamTexts ==
    { <<Chr("a")>>, <<LF>>, <<CR>>, <<CR, LF>>, <<Chr("a"), CR, LF, Chr("b")>>,
      <<CR, CR, LF, LF>>, <<ETX>>, <<ETB>>, <<VT>>, <<Chr("a"), CR>>,
      Csi(<<>>, "D"), <<ESC, CR>>, Line1Line2 }

KeyStreams ==
    { [kind |-> "csi", bytes |-> Csi(<<>>, "D")],
      [kind |-> "csi", bytes |-> Csi(<<>>, "H")],
      [kind |-> "csi", bytes |-> Csi(<<Chr("1"), SEMI, Chr("5")>>, "D")],
      [kind |-> "csi", bytes |-> Csi(<<Chr("3")>>, "~")],
      [kind |-> "altenter", bytes |-> <<ESC, CR>>],
      [kind |-> "pastestart", bytes |-> PasteStartMarker] }

InitParse ==
    /\ prompt = TodoPrompt
    /\ cols = DefaultCols
    /\ \E chunks \in TypedBefore : \E e \in {Typed(Fresh, chunks)} : Is(e)
    /\ NoStream
    /\ NoConfig
    /\ NoWatch
    /\ NoDiff

Begins(k, bytes, text) ==
    /\ kind = "none"
    /\ kind' = k
    /\ pending' = bytes
    /\ nchunks' = 0
    /\ pre' = [buf |-> buf, cursor |-> cursor, text |-> text]
    /\ ref' = Seen(OnData(Cur, bytes))
    /\ UNCHANGED <<prompt, cols, buf, cursor, pasting, done, screenRow, rawMode, flowing,
                   listening, promise, finishes, exitBy, term, redraws, diffVars, watchVars, configVars>>

BeginPaste == \E t \in PasteStreamTexts : Begins("paste", PasteStartMarker \o t \o PasteEndMarker, t)
BeginKey == \E k \in KeyStreams : Begins(k.kind, k.bytes, <<>>)

\* the next n bytes of the stream arrive as one "data" event
Deliver ==
    \E n \in 1..Len(pending) :
        /\ Becomes(Emit(Cur, Slice(pending, 0, n)))
        /\ pending' = SliceFrom(pending, n)
        /\ nchunks' = nchunks + 1
        /\ UNCHANGED <<prompt, cols, kind, pre, ref, diffVars, watchVars, configVars>>

NextParse == BeginPaste \/ BeginKey \/ Deliver

SpecParse == InitParse /\ [][NextParse]_vars

(***************************************************************************)
(* Editing keys reaching an editor that holds typed text: any text of up   *)
(* to MaxTyped characters, spaces and newlines, with the cursor anywhere   *)
(* in it.  Here pending is the chunks (one per "data" event) still to      *)
(* come, pre the editor before the first of them and ref the editor after  *)
(* the last.                                                               *)
(***************************************************************************)
TypedChars == {Chr("a"), SP, LF}

\* the chunk a terminal sends for a typed character (Alt+Enter for newline)
KeyOf(c) == IF c = LF THEN <<ESC, CR>> ELSE <<c>>

CtrlRightBytes == Csi(<<Chr("1"), SEMI, Chr("5")>>, "C")
CtrlLeftBytes == Csi(<<Chr("1"), SEMI, Chr("5")>>, "D")

EditStreams ==
    { [kind |-> "ctrlw", chunks |-> << <<ETB>> >>],
      [kind |-> "ctrlk", chunks |-> << <<VT>> >>],
      [kind |-> "wordright", chunks |-> << CtrlRightBytes >>],
      [kind |-> "wordleft", chunks |-> << CtrlLeftBytes >>],
      [kind |-> "rightleft2",
       chunks |-> << CtrlRightBytes, CtrlLeftBytes, CtrlRightBytes, CtrlLeftBytes >>],
      [kind |-> "enter", chunks |-> << <<CR>> >>],
      [kind |-> "enter", chunks |-> << <<LF>> >>],
      [kind |-> "enter", chunks |-> << <<CR, Chr("a")>> >>],
      [kind |-> "enter", chunks |-> << <<CR, ETB, ETX>>, <<Chr("a")>> >>],
      [kind |-> "enter",
       chunks |-> << <<LF>> \o PasteStartMarker \o <<Chr("a")>> \o PasteEndMarker >>],
      \* Up, Down, PageUp, Ctrl+Up and F3, alone or followed by another key
      [kind |-> "unknowncsi", chunks |-> << Csi(<<>>, "A") >>],
      [kind |-> "unknowncsi", chunks |-> << Csi(<<>>, "B") \o <<Chr("a")>> >>],
      [kind |-> "unknowncsi", chunks |-> << Csi(<<Chr("5")>>, "~") \o <<Chr("a")>> >>],
      [kind |-> "unknowncsi",
       chunks |-> << Csi(<<Chr("1"), SEMI, Chr("5")>>, "A") \o Csi(<<>>, "D") >>],
      [kind |-> "unknowncsi", chunks |-> << Csi(<<Chr("1"), Chr("3")>>, "~") \o <<ETB>> >>],
      \* ESC before a byte that begins no sequence, and ESC as the last byte
      [kind |-> "escpair", chunks |-> << <<ESC, LF>> >>],
      [kind |-> "escpair", chunks |-> << <<ESC, ETX>> >>],
      [kind |-> "escpair", chunks |-> << <<ESC, Chr("a"), Chr("b")>> >>],
      [kind |-> "escpair", chunks |-> << <<ESC, ESC, ETB>> >>],
      [kind |-> "escpair", chunks |-> << <<ESC>>, <<ESC, DEL>> >>],
      \* Alt+Enter, then Enter
      [kind |-> "altenter", chunks |-> << <<ESC, CR>>, <<CR>> >>],
      [kind |-> "altenter", chunks |-> << <<ESC, CR>>, <<LF, Chr("a")>> >>] }

InitKeys ==
    /\ prompt = TodoPrompt
    /\ cols = DefaultCols
    /\ Started
    /\ NoStream
    /\ NoConfig
    /\ NoWatch
    /\ NoDiff

TypeText ==
    \E c \in TypedChars :
        kind = "none" /\ Len(buf) < MaxTyped /\ Becomes(Emit(Cur, KeyOf(c))) /\ Frame

GoLeft == kind = "none" /\ cursor > 0 /\ Becomes(Emit(Cur, Csi(<<>>, "D"))) /\ Frame

BeginEdit ==
    \E k \in EditStreams :
        /\ kind = "none"
        /\ kind' = k.kind
        /\ pending' = k.chunks
        /\ nchunks' = 0
        /\ pre' = [buf |-> buf, cursor |-> cursor, text |-> k.chunks[1]]
        /\ ref' = Seen(Typed(Cur, k.chunks))
        /\ UNCHANGED <<prompt, cols, buf, cursor, pasting, done, screenRow, rawMode,
                       flowing, listening, promise, finishes, exitBy, term, redraws,
                       diffVars, watchVars, configVars>>

\* the next chunk arrives as one "data" event
DeliverChunk ==
    /\ kind # "none"
    /\ pending # <<>>
    /\ Becomes(Emit(Cur, Head(pending)))
    /\ pending' = Tail(pending)
    /\ nchunks' = nchunks + 1
    /\ UNCHANGED <<prompt, cols, kind, pre, ref, diffVars, watchVars, configVars>>

NextKeys == TypeText \/ GoLeft \/ BeginEdit \/ DeliverChunk

SpecKeys == InitKeys /\ [][NextKeys]_vars

(***************************************************************************)
(* renderDiff (src/unnamed/part_001).  A text is a sequence of character   *)
(* codes; the result is the sequence of parts renderDiff joins, one per    *)
(* output line, the empty sequence being the empty string.  A DiffLine's   *)
(* hl says that its text went through highlightInline.                     *)
(***************************************************************************)
CONTEXT_LINES == 3
MAX_OUTPUT_LINES == 80

\* "\x1b[" params ";"-joined "m"
RECURSIVE SgrParams(_)
SgrParams(ps) ==
    IF Len(ps) = 1 THEN Decimal(ps[1]) ELSE Decimal(ps[1]) \o <<SEMI>> \o SgrParams(Tail(ps))
Sgr(ps) == <<ESC, LBRACKET>> \o SgrParams(ps) \o <<Chr("m")>>

WHITE == Sgr(<<38, 2, 255, 255, 255>>)
DIM == Sgr(<<2>>)
RESET == Sgr(<<0>>)
BG_RED == Sgr(<<48, 2, 55, 20, 20>>)
BG_GREEN == Sgr(<<48, 2, 20, 45, 20>>)
BG_RED_HL == Sgr(<<48, 2, 100, 35, 35>>)
BG_GREEN_HL == Sgr(<<48, 2, 35, 85, 35>>)
\* the colours of the line numbers of removed and added lines
FG_RED_NUM == Sgr(<<38, 2, 180, 80, 80>>)
FG_GREEN_NUM == Sgr(<<38, 2, 80, 160, 80>>)
\* chalk.rgb(174, 129, 255) of SYNTAX_THEME.number: what it opens and closes with
NUMBER_OPEN == Sgr(<<38, 2, 174, 129, 255>>)
FG_CLOSE == Sgr(<<39>>)

Range(s) == {s[i] : i \in 1..Len(s)}

\* dmp.diff_linesToChars_: the lines of a text, each with its newline
DiffLinesFrom(parts) ==
    [k \in 1..(Len(parts) - 1) |-> parts[k] \o <<LF>>]
    \o (IF parts[Len(parts)] = <<>> THEN <<>> ELSE <<parts[Len(parts)]>>)
DiffLinesOf(text) == DiffLinesFrom(Split(text, LF))

\* dmp.diff_main with lines as units, one edit per line: the common lines
\* stay, each run of other lines is deleted and then the new ones inserted.
\* This is the minimal edit script when no line occurs twice in a text and
\* the common lines keep their order, as in the texts of this model.  The
\* script is that of the lines above a common line, the line, and that of
\* the lines below it.
PlaceIn(s, x) == CHOOSE i \in 1..Len(s) : s[i] = x
CommonPlaces(a, b) == {i \in 1..Len(a) : a[i] \in Range(b)}
MiddleOf(S) == CHOOSE i \in S : Cardinality({j \in S : j < i}) = Cardinality(S) \div 2
RECURSIVE LineEdits(_, _)
LineEditsAround(a, b, i, j) ==
    LineEdits(SubSeq(a, 1, i - 1), SubSeq(b, 1, j - 1))
    \o <<[op |-> 0, text |-> a[i]]>>
    \o LineEdits(SubSeq(a, i + 1, Len(a)), SubSeq(b, j + 1, Len(b)))
LineEditsAt(a, b, i) == LineEditsAround(a, b, i, PlaceIn(b, a[i]))
LineEdits(a, b) ==
    IF CommonPlaces(a, b) = {}
    THEN [i \in 1..Len(a) |-> [op |-> -1, text |-> a[i]]]
         \o [j \in 1..Len(b) |-> [op |-> 1, text |-> b[j]]]
    ELSE LineEditsAt(a, b, MiddleOf(CommonPlaces(a, b)))

\* dmp.diff_cleanupMerge and diff_charsToLines_: one diff per run of edits
RECURSIVE MergeEdits(_)
MergeRuns(l, r) ==
    IF l # <<>> /\ r # <<>> /\ l[Len(l)].op = r[1].op
    THEN SubSeq(l, 1, Len(l) - 1)
         \o <<[op |-> r[1].op, text |-> l[Len(l)].text \o r[1].text]>>
         \o Tail(r)
    ELSE l \o r
MergeEdits(d) ==
    IF Len(d) < 2 THEN d
    ELSE MergeRuns(MergeEdits(SubSeq(d, 1, Len(d) \div 2)),
                   MergeEdits(SubSeq(d, Len(d) \div 2 + 1, Len(d))))

DiffMain(text1, text2) == MergeEdits(LineEdits(DiffLinesOf(text1), DiffLinesOf(text2)))

\* the strings of a sequence put one after the other
RECURSIVE Concat(_)
Concat(ss) ==
    IF ss = <<>> THEN <<>>
    ELSE IF Len(ss) = 1 THEN ss[1]
    ELSE Concat(SubSeq(ss, 1, Len(ss) \div 2)) \o Concat(SubSeq(ss, Len(ss) \div 2 + 1, Len(ss)))

\* path.extname: from the last dot of the last segment on, nothing when
\* there is no dot or the segment begins with its only dot
Basename(path) == SliceFrom(path, GreatestOr({i \in 0..(Len(path) - 1) : path[i + 1] = 47}, -1) + 1)
ExtFrom(base, dot) == IF dot <= 0 THEN <<>> ELSE SliceFrom(base, dot)
Extname(path) ==
    ExtFrom(Basename(path),
            GreatestOr({i \in 0..(Len(Basename(path)) - 1) : Basename(path)[i + 1] = 46}, -1))

\* the languages cli-highlight has a grammar for, of those in this model
Grammars == {<<116, 115>>}
IsDigit(c) == c >= 48 /\ c <= 57
\* cli-highlight's highlight for a known language, as far as this model
\* goes: each number of the text in the colour of the theme
NumberAt(text, i) ==
    (IF IsDigit(text[i]) /\ (i = 1 \/ ~IsDigit(text[i - 1])) THEN NUMBER_OPEN ELSE <<>>)
    \o <<text[i]>>
    \o (IF IsDigit(text[i]) /\ (i = Len(text) \/ ~IsDigit(text[i + 1])) THEN FG_CLOSE ELSE <<>>)
Highlight(text) == Concat([i \in 1..Len(text) |-> NumberAt(text, i)])

\* syntaxHighlight: the plain lines for a path without extension and when
\* highlight throws, as it does for a language it does not know
SyntaxHighlightFor(text, ext) ==
    IF ext = <<>> THEN Split(text, LF)
    ELSE IF ext \notin Grammars THEN Split(text, LF)
    ELSE Split(Highlight(text), LF)
SyntaxHighlight(text, path) == SyntaxHighlightFor(text, SliceFrom(Extname(path), 1))

\* text.replace(/\x1b\[0m/g, "\x1b[0m" + bg)
ResetEndsAt(text, i) == i >= Len(RESET) /\ SubSeq(text, i - Len(RESET) + 1, i) = RESET
PatchResets(text, bg) ==
    Concat([i \in 1..Len(text) |-> IF ResetEndsAt(text, i) THEN <<text[i]>> \o bg ELSE <<text[i]>>])

\* s.indexOf(ch, from)
IndexOfFrom(s, ch, from) == LeastOr({j \in from..(Len(s) - 1) : s[j + 1] = ch}, -1)

\* the slice taken by the positions of the coloured string
SliceSyntaxByIndex(syn, start, end) == Slice(syn, start, end)

\* sliceSyntax: the passes of the while loop for i = from .. to - 1; a pass
\* is made at an index only if the loop has come to it
RECURSIVE SliceLoop(_, _, _, _, _, _)
\* an escape sequence counted as plain characters
SliceEscapeCounted(syn, start, st, escEnd) ==
    [plainPos |-> st.plainPos + (escEnd + 1 - st.i),
     result |-> st.result \o (IF st.plainPos >= start THEN Slice(syn, st.i, escEnd + 1) ELSE <<>>),
     i |-> escEnd + 1]

SliceEscape(syn, start, st, escEnd) ==
    [plainPos |-> st.plainPos,
     result |-> st.result \o (IF st.plainPos >= start THEN Slice(syn, st.i, escEnd + 1) ELSE <<>>),
     i |-> escEnd + 1]
SliceChar(syn, start, st) ==
    [plainPos |-> st.plainPos + 1,
     result |-> st.result \o (IF st.plainPos >= start THEN <<syn[st.i + 1]>> ELSE <<>>),
     i |-> st.i + 1]
SlicePass(syn, start, end, k, st) ==
    IF k # st.i \/ st.plainPos >= end THEN st
    ELSE IF syn[k + 1] = ESC /\ IndexOfFrom(syn, Chr("m"), k) # -1
    THEN SliceEscape(syn, start, st, IndexOfFrom(syn, Chr("m"), k))
    ELSE SliceChar(syn, start, st)
SliceLoop(syn, start, end, from, to, st) ==
    IF from >= to THEN st
    ELSE IF to = from + 1 THEN SlicePass(syn, start, end, from, st)
    ELSE CHOOSE r \in {SliceLoop(syn, start, end, (from + to) \div 2, to, u) :
                          u \in {SliceLoop(syn, start, end, from, (from + to) \div 2, st)}} : TRUE
SliceSyntax(syn, start, end) ==
    SliceLoop(syn, start, end, 0, Len(syn), [plainPos |-> 0, result |-> <<>>, i |-> 0]).result

\* dmp.diff_main and diff_cleanupSemantic on two strings: what they have in
\* common at the start and at the end, and between these the old characters
\* deleted and the new ones inserted.  This is the library's result when
\* the two middles have no character in common, as in the texts of this
\* model.
CommonPrefix(a, b) ==
    GreatestOr({k \in 0..Min(Len(a), Len(b)) : SubSeq(a, 1, k) = SubSeq(b, 1, k)}, 0)
CommonSuffix(a, b) ==
    GreatestOr({k \in 0..Min(Len(a), Len(b)) :
                   SubSeq(a, Len(a) - k + 1, Len(a)) = SubSeq(b, Len(b) - k + 1, Len(b))}, 0)
CharEdit(op, text) == IF text = <<>> THEN <<>> ELSE <<[op |-> op, text |-> text]>>
CharDiffIn(a, b, npre, nsuf) ==
    CharEdit(0, SubSeq(a, 1, npre))
    \o CharEdit(-1, SubSeq(a, npre + 1, Len(a) - nsuf))
    \o CharEdit(1, SubSeq(b, npre + 1, Len(b) - nsuf))
    \o CharEdit(0, SubSeq(a, Len(a) - nsuf + 1, Len(a)))
CharDiffAfter(a, b, npre) ==
    CharDiffIn(a, b, npre, CommonSuffix(SliceFrom(a, npre), SliceFrom(b, npre)))
CharDiff(a, b) == CharDiffAfter(a, b, CommonPrefix(a, b))

EndsWithLf(text) == text # <<>> /\ text[Len(text)] = LF
\* text.slice(0, -1) whatever the text ends with
ChopLast(text) == SubSeq(text, 1, Len(text) - 1)
\* text.endsWith("\n") ? text.slice(0, -1) : text
ChopLf(text) == IF EndsWithLf(text) THEN SubSeq(text, 1, Len(text) - 1) ELSE text
\* text.split("\n") with the last newline left in
ChunkLinesKeepsLast(text) == Split(text, LF)

ChunkLines(text) == Split(ChopLf(text), LF)

\* ls.join("\n")
RECURSIVE JoinLf(_)
JoinLf(ls) ==
    IF ls = <<>> THEN <<>>
    ELSE IF Len(ls) = 1 THEN ls[1]
    ELSE JoinLf(SubSeq(ls, 1, Len(ls) \div 2))
         \o <<LF>> \o JoinLf(SubSeq(ls, Len(ls) \div 2 + 1, Len(ls)))

\* syntaxLines[n - 1] ?? fallback
SyntaxLine(syn, n, fallback) == IF n >= 1 /\ n <= Len(syn) THEN syn[n] ELSE fallback

\* highlightInline: the loop over the character diffs from index k on
RECURSIVE InlineLoop(_, _, _, _, _)
InlineEqual(d, oldSyn, newSyn, k, st) ==
    InlineLoop(d, oldSyn, newSyn, k + 1,
               [oldPos |-> st.oldPos + Len(d[k + 1].text),
                newPos |-> st.newPos + Len(d[k + 1].text),
                oldResult |-> st.oldResult
                    \o SliceSyntax(oldSyn, st.oldPos, st.oldPos + Len(d[k + 1].text)),
                newResult |-> st.newResult
                    \o SliceSyntax(newSyn, st.newPos, st.newPos + Len(d[k + 1].text))])
InlineRemoved(d, oldSyn, newSyn, k, st) ==
    InlineLoop(d, oldSyn, newSyn, k + 1,
               [oldPos |-> st.oldPos + Len(d[k + 1].text),
                newPos |-> st.newPos,
                oldResult |-> st.oldResult \o BG_RED_HL
                    \o PatchResets(SliceSyntax(oldSyn, st.oldPos, st.oldPos + Len(d[k + 1].text)),
                                   BG_RED_HL)
                    \o RESET \o BG_RED,
                newResult |-> st.newResult])
InlineAdded(d, oldSyn, newSyn, k, st) ==
    InlineLoop(d, oldSyn, newSyn, k + 1,
               [oldPos |-> st.oldPos,
                newPos |-> st.newPos + Len(d[k + 1].text),
                oldResult |-> st.oldResult,
                newResult |-> st.newResult \o BG_GREEN_HL
                    \o PatchResets(SliceSyntax(newSyn, st.newPos, st.newPos + Len(d[k + 1].text)),
                                   BG_GREEN_HL)
                    \o RESET \o BG_GREEN])
InlineLoop(d, oldSyn, newSyn, k, st) ==
    IF k >= Len(d) THEN st
    ELSE IF d[k + 1].op = 0 THEN InlineEqual(d, oldSyn, newSyn, k, st)
    ELSE IF d[k + 1].op = -1 THEN InlineRemoved(d, oldSyn, newSyn, k, st)
    ELSE InlineAdded(d, oldSyn, newSyn, k, st)
InlineResult(st) == [old |-> Split(st.oldResult, LF), new |-> Split(st.newResult, LF)]
HighlightInline(oldLines, newLines, oldSyntax, newSyntax) ==
    InlineResult(InlineLoop(CharDiff(JoinLf(oldLines), JoinLf(newLines)),
                            JoinLf(oldSyntax), JoinLf(newSyntax), 0,
                            [oldPos |-> 0, newPos |-> 0, oldResult |-> <<>>, newResult |-> <<>>]))

ContextLine(t, o, m) == [op |-> 0, text |-> t, hl |-> FALSE, origLine |-> o, modLine |-> m]
RemovedLine(t, o, h) == [op |-> -1, text |-> t, hl |-> h, origLine |-> o]
AddedLine(t, m, h) == [op |-> 1, text |-> t, hl |-> h, modLine |-> m]

ContextLines(chunk, syn, o, m) ==
    [j \in 1..Len(chunk) |->
        ContextLine(SyntaxLine(syn, o + j - 1, chunk[j]), o + j - 1, m + j - 1)]
RemovedLines(chunk, syn, o) ==
    [j \in 1..Len(chunk) |-> RemovedLine(SyntaxLine(syn, o + j - 1, chunk[j]), o + j - 1, FALSE)]
AddedLines(chunk, syn, m) ==
    [j \in 1..Len(chunk) |-> AddedLine(SyntaxLine(syn, m + j - 1, chunk[j]), m + j - 1, FALSE)]
PairedRemoved(hlOld, o) == [j \in 1..Len(hlOld) |-> RemovedLine(hlOld[j], o + j - 1, TRUE)]
PairedAdded(hlNew, m) == [j \in 1..Len(hlNew) |-> AddedLine(hlNew[j], m + j - 1, TRUE)]

\* plain.map((_, j) => syntaxLines[n + j - 1] ?? "")
SyntaxOf(plain, syn, n) == [j \in 1..Len(plain) |-> SyntaxLine(syn, n + j - 1, <<>>)]

\* the loop without its branch for a removal followed by an addition
IsPairNever(diffs, i) == FALSE

\* a removal paired with whatever follows it
IsPairWithAny(diffs, i) == diffs[i + 1].op = -1 /\ i + 1 < Len(diffs)

\* op === -1 && i + 1 < diffs.length && diffs[i + 1][0] === 1
IsPair(diffs, i) == diffs[i + 1].op = -1 /\ i + 1 < Len(diffs) /\ diffs[i + 2].op = 1

\* the while loop over diffs, from index i with the line counters o and m
RECURSIVE BuildLines(_, _, _, _, _, _)
AfterContext(diffs, i, o, m, osyn, msyn, chunk) ==
    ContextLines(chunk, osyn, o, m)
    \o BuildLines(diffs, i + 1, o + Len(chunk), m + Len(chunk), osyn, msyn)
AfterPair(diffs, i, o, m, osyn, msyn, h) ==
    PairedRemoved(h.old, o) \o PairedAdded(h.new, m)
    \o BuildLines(diffs, i + 2, o + Len(h.old), m + Len(h.new), osyn, msyn)
PairAt(diffs, i, o, m, osyn, msyn, oldPlain, newPlain) ==
    AfterPair(diffs, i, o, m, osyn, msyn,
              HighlightInline(oldPlain, newPlain,
                              SyntaxOf(oldPlain, osyn, o), SyntaxOf(newPlain, msyn, m)))
AfterRemoved(diffs, i, o, m, osyn, msyn, chunk) ==
    RemovedLines(chunk, osyn, o) \o BuildLines(diffs, i + 1, o + Len(chunk), m, osyn, msyn)
AfterAdded(diffs, i, o, m, osyn, msyn, chunk) ==
    AddedLines(chunk, msyn, m) \o BuildLines(diffs, i + 1, o, m + Len(chunk), osyn, msyn)
BuildLines(diffs, i, o, m, osyn, msyn) ==
    IF i >= Len(diffs) THEN <<>>
    ELSE IF diffs[i + 1].op = 0
    THEN AfterContext(diffs, i, o, m, osyn, msyn, ChunkLines(diffs[i + 1].text))
    ELSE IF IsPair(diffs, i)
    THEN PairAt(diffs, i, o, m, osyn, msyn,
                Split(ChopLf(diffs[i + 1].text), LF), Split(ChopLf(diffs[i + 2].text), LF))
    ELSE IF diffs[i + 1].op = -1
    THEN AfterRemoved(diffs, i, o, m, osyn, msyn, ChunkLines(diffs[i + 1].text))
    ELSE AfterAdded(diffs, i, o, m, osyn, msyn, ChunkLines(diffs[i + 1].text))

\* the DiffLine sequence of two texts
DiffLinesFor(orig, mod, path) ==
    BuildLines(DiffMain(orig, mod), 0, 1, 1,
               SyntaxHighlight(orig, path), SyntaxHighlight(mod, path))

\* indices of the changed lines, and of the lines within the context of one
ChangedIdx(ls) == {idx \in 0..(Len(ls) - 1) : ls[idx + 1].op # 0}
\* one line of context too few after a change
AroundShortAfter(idx, n) == Max(0, idx - CONTEXT_LINES)..Min(n - 1, idx + CONTEXT_LINES - 1)

Around(idx, n) == Max(0, idx - CONTEXT_LINES)..Min(n - 1, idx + CONTEXT_LINES)
VisibleIdx(ls) == UNION {Around(idx, Len(ls)) : idx \in ChangedIdx(ls)}

\* s.padStart(n)
RECURSIVE PadStart(_, _)
PadStart(s, n) == IF Len(s) >= n THEN s ELSE PadStart(<<SP>> \o s, n)

\* the parts renderDiff pushes
HeaderPart(path) == [kind |-> "header", path |-> path]
SkippedPart == [kind |-> "skipped"]
\* the string pushed for a DiffLine, pad being its line number
LineText(dl, pad) ==
    IF dl.op = -1
    THEN BG_RED \o FG_RED_NUM \o pad \o <<SP, 45>> \o RESET \o BG_RED \o WHITE
         \o PatchResets(dl.text, BG_RED \o WHITE) \o RESET \o <<LF>>
    ELSE IF dl.op = 1
    THEN BG_GREEN \o FG_GREEN_NUM \o pad \o <<SP, 43>> \o RESET \o BG_GREEN \o WHITE
         \o PatchResets(dl.text, BG_GREEN \o WHITE) \o RESET \o <<LF>>
    ELSE DIM \o pad \o <<SP, SP>> \o RESET \o WHITE \o dl.text \o RESET \o <<LF>>
LinePartOf(dl, pad) ==
    [kind |-> "line", op |-> dl.op, pad |-> pad, text |-> dl.text, hl |-> dl.hl,
     out |-> LineText(dl, pad)]
LinePart(dl) ==
    LinePartOf(dl, PadStart(Decimal(IF dl.op = 1 THEN dl.modLine ELSE dl.origLine), 4))
MorePart(n) == [kind |-> "more", n |-> n]

\* one pass of the render loop's body for a visible idx
ShowLine(ls, idx, st) ==
    [parts |-> st.parts
               \o (IF idx > st.lastIdx + 1 THEN <<SkippedPart>> ELSE <<>>)
               \o <<LinePart(ls[idx + 1])>>,
     outputLines |-> st.outputLines + (IF idx > st.lastIdx + 1 THEN 2 ELSE 1),
     lastIdx |-> idx]

\* the render loop from idx on while idx < to: once outputLines has reached
\* the cap no pass is made
RECURSIVE RenderLoop(_, _, _, _, _)
RenderPass(ls, vis, idx, st) ==
    IF st.outputLines >= MAX_OUTPUT_LINES \/ idx \notin vis THEN st ELSE ShowLine(ls, idx, st)
RenderLoop(ls, vis, idx, to, st) ==
    IF idx >= to THEN st
    ELSE IF to = idx + 1 THEN RenderPass(ls, vis, idx, st)
    ELSE CHOOSE r \in {RenderLoop(ls, vis, (idx + to) \div 2, to, u) :
                          u \in {RenderLoop(ls, vis, idx, (idx + to) \div 2, st)}} : TRUE

\* the count taken from the last rendered index on
WithMoreFromLast(vis, st) ==
    st.parts
    \o (IF st.outputLines >= MAX_OUTPUT_LINES /\ {i \in vis : i >= st.lastIdx} # {}
        THEN <<MorePart(Cardinality({i \in vis : i >= st.lastIdx}))>>
        ELSE <<>>)

\* after the loop: the count of visible lines the cap left out
WithMore(vis, st) ==
    st.parts
    \o (IF st.outputLines >= MAX_OUTPUT_LINES /\ {i \in vis : i > st.lastIdx} # {}
        THEN <<MorePart(Cardinality({i \in vis : i > st.lastIdx}))>>
        ELSE <<>>)

RenderParts(ls, path) ==
    WithMore(VisibleIdx(ls),
             RenderLoop(ls, VisibleIdx(ls), 0, Len(ls),
                        [parts |-> <<HeaderPart(path)>>, outputLines |-> 1, lastIdx |-> -2]))

\* renderDiff without its return for no changed line
RenderAlways(ls, path) == RenderParts(ls, path)

\* if (changed.size === 0) return ""
Render(ls, path) == IF ChangedIdx(ls) = {} THEN <<>> ELSE RenderParts(ls, path)

(***************************************************************************)
(* renderDiff called once on an original of up to MaxLines lines, each     *)
(* line its own letter, and a modification of it: at one or two lines, a   *)
(* line deleted, replaced by a new one, by two, by an empty one, or a new  *)
(* line put before it; either text with or without its last newline.      *)
(***************************************************************************)
EditKinds == {"del", "rep", "rep2", "blank", "ins"}
Edits(n) ==
    {{}}
    \cup {{[at |-> p, kind |-> x]} : p \in 1..n, x \in EditKinds}
    \cup {{[at |-> p, kind |-> x], [at |-> q, kind |-> y]} :
            p \in 1..n, q \in 1..n, x \in EditKinds, y \in EditKinds}

\* the lines that replace line k of the original
Replaced(k, kinds) ==
    IF kinds = {} THEN << <<96 + k>> >>
    ELSE IF "del" \in kinds THEN <<>>
    ELSE IF "rep" \in kinds THEN << <<64 + k>> >>
    ELSE IF "rep2" \in kinds THEN << <<64 + k>>, <<48 + k>> >>
    ELSE IF "blank" \in kinds THEN << <<>> >>
    ELSE << <<64 + k>>, <<96 + k>> >>

RECURSIVE ModifiedLines(_, _, _)
ModifiedLines(n, ed, k) ==
    IF k > n THEN <<>>
    ELSE Replaced(k, {r.kind : r \in {x \in ed : x.at = k}}) \o ModifiedLines(n, ed, k + 1)

OriginalLines(n) == [k \in 1..n |-> <<96 + k>>]

TextOf(ls, nl) == JoinLf(ls) \o (IF nl /\ ls # <<>> THEN <<LF>> ELSE <<>>)

\* "notes" and "Makefile"
NotesPath == <<110, 111, 116, 101, 115>>
Paths == {NotesPath, <<77, 97, 107, 101, 102, 105, 108, 101>>}

editorVars == <<prompt, cols, buf, cursor, pasting, done, screenRow, rawMode, flowing,
                listening, promise, finishes, exitBy, term, redraws, pending, kind,
                nchunks, pre, ref>>

InitDiff ==
    /\ prompt = TodoPrompt
    /\ cols = DefaultCols
    /\ Started
    /\ NoStream
    /\ NoConfig
    /\ NoWatch
    /\ \E n \in 0..MaxLines : \E ed \in Edits(n) : \E nl1 \in BOOLEAN : \E nl2 \in BOOLEAN :
           /\ originalContent = TextOf(OriginalLines(n), nl1)
           /\ modifiedContent = TextOf(ModifiedLines(n, ed, 1), nl2)
    /\ filePath \in Paths
    /\ diffLines = <<>>
    /\ rendered = <<>>
    /\ returned = FALSE

RenderDiff ==
    /\ ~returned
    /\ diffLines' = DiffLinesFor(originalContent, modifiedContent, filePath)
    /\ rendered' = Render(diffLines', filePath)
    /\ returned' = TRUE
    /\ UNCHANGED <<originalContent, modifiedContent, filePath, editorVars, watchVars, configVars>>

NextDiff == RenderDiff

SpecDiff == InitDiff /\ [][NextDiff]_vars

(***************************************************************************)
(* renderDiff called once on a long original and a modification of it that *)
(* changes a run of up to MaxSites lines from line first on and one more   *)
(* line gap lines below the run; after is the number of lines below that   *)
(* one.  A changed line is replaced by one new line or by two.  Line k of  *)
(* the original is the character of code 200 + k.                          *)
(***************************************************************************)
Firsts == 1..5
Gaps == {0, 7, 9}
Afters == {0, 5}
SiteKinds == {"rep", "rep2"}

LongLine(k) == <<200 + k>>
NewLines(k, x) == IF x = "rep" THEN << <<400 + k>> >> ELSE << <<400 + k>>, <<600 + k>> >>
LongOriginal(n) == [k \in 1..n |-> LongLine(k)]
Sites(first, run, gap) == first..(first + run - 1) \cup {first + run + gap}
RECURSIVE LongModified(_, _, _, _)
LongModified(sites, x, from, to) ==
    IF from > to THEN <<>>
    ELSE IF from = to
    THEN (IF from \notin sites THEN <<LongLine(from)>> ELSE NewLines(from, x))
    ELSE LongModified(sites, x, from, (from + to) \div 2)
         \o LongModified(sites, x, (from + to) \div 2 + 1, to)

InitCap ==
    /\ prompt = TodoPrompt
    /\ cols = DefaultCols
    /\ Started
    /\ NoStream
    /\ NoConfig
    /\ NoWatch
    /\ \E first \in Firsts : \E run \in 1..MaxSites : \E gap \in Gaps :
       \E after \in Afters : \E x \in SiteKinds :
           /\ originalContent = TextOf(LongOriginal(first + run + gap + after), TRUE)
           /\ modifiedContent =
                  TextOf(LongModified(Sites(first, run, gap), x,
                                      1, first + run + gap + after), TRUE)
    /\ filePath = NotesPath
    /\ diffLines = <<>>
    /\ rendered = <<>>
    /\ returned = FALSE

NextCap == RenderDiff

SpecCap == InitCap /\ [][NextCap]_vars

(***************************************************************************)
(* renderDiff called once on two short texts that begin and end alike and  *)
(* differ between: letters, numbers and newlines around old characters     *)
(* (x, 7, newline) in the original and new ones (y, 8) in the              *)
(* modification, for a path with a known extension, an unknown one or      *)
(* none.  No line occurs twice in a text.                                  *)
(***************************************************************************)
Befores == {<<>>, <<97>>, <<49>>, <<97, 49>>, <<97, LF>>, <<49, LF, 49>>}
Olds == {<<>>, <<120>>, <<55>>, <<120, 55>>, <<55, LF, 120>>, <<120, LF, 55>>}
News == {<<>>, <<121>>, <<56>>, <<121, 56>>, <<56, 121>>}
Afters2 == {<<>>, <<97>>, <<50>>, <<50, 97>>, <<LF, 98>>, <<50, LF, 50>>}
\* "a.ts", "a.zz", "notes", ".ts" and "d.ts/notes"
ColourPaths ==
    {<<97, 46, 116, 115>>, <<97, 46, 122, 122>>, NotesPath, <<46, 116, 115>>,
     <<100, 46, 116, 115, 47>> \o NotesPath}
NoLineTwice(text) == Cardinality(Range(DiffLinesOf(text))) = Len(DiffLinesOf(text))

InitColour ==
    /\ prompt = TodoPrompt
    /\ cols = DefaultCols
    /\ Started
    /\ NoStream
    /\ NoConfig
    /\ NoWatch
    /\ \E b \in Befores : \E a \in Afters2 :
           /\ originalContent \in {b \o x \o a : x \in Olds}
           /\ modifiedContent \in {b \o y \o a : y \in News}
    /\ NoLineTwice(originalContent)
    /\ NoLineTwice(modifiedContent)
    /\ filePath \in ColourPaths
    /\ diffLines = <<>>
    /\ rendered = <<>>
    /\ returned = FALSE

NextColour == RenderDiff

SpecColour == InitColour /\ [][NextColour]_vars

(***************************************************************************)
(* interactiveLoop, watchTodo, handleApprovals and singleChar.  The        *)
(* program is one JavaScript thread: an action is one event of the event   *)
(* loop together with the promise continuations it makes runnable.         *)
(***************************************************************************)
World ==
    [ed |-> Cur, loopAt |-> loopAt, wsCallback |-> wsCallback, buffered |-> buffered,
     calls |-> calls, watches |-> watches, sigintListeners |-> sigintListeners,
     dataListeners |-> dataListeners, sentDecisions |-> sentDecisions,
     interruptSent |-> interruptSent, exited |-> exited, nmsgs |-> nmsgs,
     hist |-> hist, activity |-> FALSE, answers |-> <<>>]

Establish(w) ==
    /\ Becomes(w.ed)
    /\ loopAt' = w.loopAt
    /\ wsCallback' = w.wsCallback
    /\ buffered' = w.buffered
    /\ calls' = w.calls
    /\ watches' = w.watches
    /\ sigintListeners' = w.sigintListeners
    /\ dataListeners' = w.dataListeners
    /\ sentDecisions' = w.sentDecisions
    /\ interruptSent' = w.interruptSent
    /\ exited' = w.exited
    /\ nmsgs' = w.nmsgs
    /\ hist' = w.hist
    /\ UNCHANGED <<prompt, cols, pending, kind, nchunks, pre, ref, diffVars, autoApprove,
                   configVars>>

Message(t, n, st, f) == [type |-> t, id |-> n, status |-> st, file |-> f]

\* the n-th message of the server: one the prompt ignores, output of the
\* agent, or a block awaiting approval (a file block or another one)
MessagesOf(n) ==
    { Message("todo:status", n, "", FALSE),
      Message("block:message", n, "", FALSE),
      Message("BLOCK_UPDATE", n, "AWAITING_APPROVAL", TRUE),
      Message("BLOCK_UPDATE", n, "AWAITING_APPROVAL", FALSE) }

IgnoreActivity ==
    {"todo:msg_start", "todo:msg_done", "todo:msg_stop_sequence", "todo:msg_meta_ai",
     "todo:status", "todo:new_message_created", "block:end", "block:sh_msg_start",
     "block:sh_done"}

ExitWords ==
    { <<47, 101, 120, 105, 116>>, <<47, 113, 117, 105, 116>>, <<47, 113>>, <<113>>,
      <<101, 120, 105, 116>> }
HelpWords == { <<47, 104, 101, 108, 112>>, <<63>> }

\* ws.send of a BLOCK_APPROVAL_INTENT (or sendBlockDeny) for every block
Decide(w, i, blocks, decision) ==
    [w EXCEPT !.sentDecisions =
        @ \o [k \in 1..Len(blocks) |->
                 [watch |-> i, block |-> blocks[k].id, decision |-> decision]]]

\* the history of the approvals: the response of the user, or none for an
\* automatic approval, and the blocks it was for
Noted(w, i, blocks, response, auto) ==
    [w EXCEPT !.hist.answers =
        Append(@, [watch |-> i, response |-> response, auto |-> auto,
                   blocks |-> [k \in 1..Len(blocks) |-> blocks[k].id]])]

\* singleChar: raw mode on, stdin resumed, a once("data") listener registered
SingleChar(w, i) ==
    [w EXCEPT !.dataListeners = Append(@, [who |-> i, wasRaw |-> w.ed.rawMode]),
              !.ed.rawMode = TRUE,
              !.ed.flowing = TRUE,
              !.watches[i].at = "singleChar"]

ToLower(c) == IF c >= 65 /\ c <= 90 THEN c + 32 ELSE c
Decoded(chunk) ==
    LET ch == Trim(chunk) IN IF ch = <<>> THEN <<>> ELSE <<ToLower(ch[1])>>

HasFileBlocks(blocks) == \E k \in 1..Len(blocks) : blocks[k].file

RECURSIVE HandleApprovals(_, _)
\* handleApprovals without the branch for approveAll
HandleApprovalsAsks(w, i) ==
    LET c == w.watches[i]
        blocks == c.pendingBlocks
        taken == [w EXCEPT !.watches[i].approvalPromptActive = TRUE,
                           !.watches[i].pendingBlocks = <<>>]
    IN  IF c.approvalPromptActive \/ c.pendingBlocks = <<>> THEN w
        ELSE IF HasFileBlocks(blocks)
        THEN [taken EXCEPT !.watches[i].blocks = blocks, !.watches[i].at = "delay"]
        ELSE SingleChar([taken EXCEPT !.watches[i].blocks = blocks], i)
\* handleApprovals up to its first await
HandleApprovals(w, i) ==
    LET c == w.watches[i]
        blocks == c.pendingBlocks
        taken == [w EXCEPT !.watches[i].approvalPromptActive = TRUE,
                           !.watches[i].pendingBlocks = <<>>]
    IN  IF c.approvalPromptActive \/ c.pendingBlocks = <<>> THEN w
        ELSE IF c.approveAll
        THEN \* pendingBlocks is empty after splice(0): the re-invocation returns at once
             [Decide(Noted(taken, i, blocks, <<>>, TRUE), i, blocks, "allow_once")
                 EXCEPT !.watches[i].approvalPromptActive = FALSE]
        ELSE IF HasFileBlocks(blocks)
        THEN [taken EXCEPT !.watches[i].blocks = blocks, !.watches[i].at = "delay"]
        ELSE SingleChar([taken EXCEPT !.watches[i].blocks = blocks], i)

\* handleApprovals that forgets the blocks queued while it waited for the key
AnsweredOnly(w, i, response) ==
    LET c == w.watches[i]
        all == [Noted(w, i, c.blocks, response, FALSE)
                   EXCEPT !.watches[i].approveAll = @ \/ response = <<97>>]
        sent == IF response \in {<<97>>, <<121>>, <<>>, <<114>>}
                THEN Decide(all, i, c.blocks,
                            IF response = <<114>> THEN "allow_remember" ELSE "allow_once")
                ELSE Decide(all, i, c.blocks, "deny")
    IN  [sent EXCEPT !.watches[i].blocks = <<>>,
                     !.watches[i].at = "none",
                     !.watches[i].approvalPromptActive = FALSE]
\* handleApprovals after await singleChar(...)
Answered(w, i, response) ==
    LET c == w.watches[i]
        all == [Noted(w, i, c.blocks, response, FALSE)
                   EXCEPT !.watches[i].approveAll = @ \/ response = <<97>>]
        sent == IF response \in {<<97>>, <<121>>, <<>>, <<114>>}
                THEN Decide(all, i, c.blocks,
                            IF response = <<114>> THEN "allow_remember" ELSE "allow_once")
                ELSE Decide(all, i, c.blocks, "deny")
        over == [sent EXCEPT !.watches[i].blocks = <<>>,
                             !.watches[i].at = "none",
                             !.watches[i].approvalPromptActive = FALSE]
    IN  IF c.pendingBlocks # <<>> THEN HandleApprovals(over, i) ELSE over

\* const callback of watchTodo
WatchCallback(w, i, m) ==
    LET seen == [w EXCEPT !.watches[i].handled = Append(@, m.id)]
    IN  IF m.type = "BLOCK_UPDATE" /\ m.status = "AWAITING_APPROVAL"
        THEN HandleApprovals([seen EXCEPT !.watches[i].pendingBlocks = Append(@, m),
                                          !.watches[i].awaited = Append(@, m.id)], i)
        ELSE seen

\* a callback that only keeps the messages that count as activity
LightCallbackActivityOnly(w, m) ==
    IF m.type \in IgnoreActivity THEN w
    ELSE [w EXCEPT !.buffered = Append(@, m), !.activity = TRUE]
\* the lightweight callback of interactiveLoop
LightCallback(w, m) ==
    [w EXCEPT !.buffered = Append(@, m),
              !.activity = @ \/ m.type \notin IgnoreActivity]

\* the websocket hands a message to the callback set for the todo, if any
OnMessage(w, m) ==
    IF w.wsCallback = "light" THEN LightCallback(w, m)
    ELSE IF w.wsCallback = "watch" THEN WatchCallback(w, w.calls, m)
    ELSE [w EXCEPT !.hist.dropped = @ \cup {m.id}]

RECURSIVE OnMessages(_, _, _)
OnMessages(w, msgs, k) ==
    IF k > Len(msgs) THEN w
    ELSE CHOOSE r \in {OnMessages(u, msgs, k + 1) : u \in {OnMessage(w, msgs[k])}} : TRUE

RECURSIVE Replay(_, _, _, _)
Replay(w, i, msgs, k) ==
    IF k > Len(msgs) THEN w
    ELSE CHOOSE r \in {Replay(u, i, msgs, k + 1) : u \in {WatchCallback(w, i, msgs[k])}} : TRUE

\* watchTodo up to its await ws.waitForCompletion(todoId, callback)
WatchTodo(w, replayMessages) ==
    LET i == w.calls + 1
        set == [w EXCEPT !.calls = i,
                         !.watches[i] = [NoCall EXCEPT !.approveAll = autoApprove,
                                                       !.origHandler = w.sigintListeners,
                                                       !.replayMessages = [k \in 1..Len(replayMessages) |-> replayMessages[k].id]],
                         !.sigintListeners = <<i>>]
    IN  [Replay(set, i, replayMessages, 1) EXCEPT !.wsCallback = "watch",
                                                  !.loopAt = "watching"]

EditorListener == [who |-> 0, wasRaw |-> FALSE]

\* readMultiline: a new editing session
ReadMultiline(w) ==
    [w EXCEPT !.ed = Fresh, !.dataListeners = Append(@, EditorListener)]

\* process.stdin.removeListener("data", onData) of finish
Unlisten(w) ==
    IF w.ed.listening THEN w
    ELSE [w EXCEPT !.dataListeners = SelectSeq(@, LAMBDA l : l # EditorListener)]

\* one iteration of the while loop up to await Promise.race
Iterate(w) ==
    [ReadMultiline(w) EXCEPT !.buffered = <<>>,
                             !.activity = FALSE,
                             !.wsCallback = "light",
                             !.loopAt = "prompt"]

\* the loop without its test for the exit commands
InputWonNoExit(w) ==
    LET input == w.ed.promise.value
        removed == [w EXCEPT !.wsCallback = "none",
                             !.hist.discarded = @ \o w.buffered,
                             !.buffered = <<>>]
    IN  IF input = <<>> THEN Iterate(removed)
        ELSE IF input \in HelpWords THEN Iterate(removed)
        ELSE [removed EXCEPT !.loopAt = "adding", !.hist.sent = Append(@, input)]
\* interactiveLoop from "User input won" on
InputWon(w) ==
    LET input == w.ed.promise.value
        removed == [w EXCEPT !.wsCallback = "none",
                             !.hist.discarded = @ \o w.buffered,
                             !.buffered = <<>>]
    IN  IF input = <<>> THEN Iterate(removed)
        ELSE IF input \in ExitWords THEN [removed EXCEPT !.loopAt = "exited"]
        ELSE IF input \in HelpWords THEN Iterate(removed)
        ELSE [removed EXCEPT !.loopAt = "adding", !.hist.sent = Append(@, input)]

\* interactiveLoop after await Promise.race
RaceWon(w) ==
    IF w.loopAt # "prompt" THEN w
    ELSE IF w.activity
    THEN WatchTodo(Unlisten([w EXCEPT !.ed = CancelFn(w.ed)]), w.buffered)
    ELSE IF w.ed.promise.state = "rejected" THEN [w EXCEPT !.loopAt = "exited"]
    ELSE IF w.ed.promise.state = "resolved" THEN InputWon(w)
    ELSE w

\* a finally block that adds the saved listeners without removing its own
ReturnsAdding(w, result) ==
    Iterate([w EXCEPT !.sigintListeners = @ \o w.watches[w.calls].origHandler,
                      !.watches[w.calls].result = result,
                      !.interruptSent = FALSE])
\* watchTodo from the settling of waitForCompletion to the next iteration
Returns(w, result) ==
    Iterate([w EXCEPT !.sigintListeners = w.watches[w.calls].origHandler,
                      !.watches[w.calls].result = result,
                      !.interruptSent = FALSE])

RemoveFirst(ls, l) ==
    LET at == CHOOSE k \in 1..Len(ls) : ls[k] = l /\ \A j \in 1..(k - 1) : ls[j] # l
    IN  IF \E k \in 1..Len(ls) : ls[k] = l
        THEN SubSeq(ls, 1, at - 1) \o SubSeq(ls, at + 1, Len(ls))
        ELSE ls

\* one "data" listener of process.stdin receives the chunk
Listener(w, l, chunk) ==
    IF l = EditorListener
    THEN IF w.ed.listening
         THEN Unlisten([w EXCEPT !.ed = OnData([w.ed EXCEPT !.redraws = 0], chunk)])
         ELSE w
    ELSE [w EXCEPT !.dataListeners = RemoveFirst(@, l),
                   !.ed.rawMode = l.wasRaw,
                   !.ed.flowing = FALSE,
                   !.answers = Append(@, [who |-> l.who, response |-> Decoded(chunk)])]

RECURSIVE Listeners(_, _, _, _)
Listeners(w, ls, k, chunk) ==
    IF k > Len(ls) THEN w
    ELSE CHOOSE r \in {Listeners(u, ls, k + 1, chunk) : u \in {Listener(w, ls[k], chunk)}} : TRUE

RECURSIVE Answers(_, _)
Answers(w, k) ==
    IF k > Len(w.answers) THEN w
    ELSE CHOOSE r \in {Answers(u, k + 1) :
                          u \in {Answered(w, w.answers[k].who, w.answers[k].response)}} : TRUE

\* a handler that sends the interrupt request before it counts
SigintListenerSendsFirst(w, i) ==
    IF w.exited THEN w
    ELSE IF i = 0 THEN [w EXCEPT !.exited = TRUE, !.hist.exit = "130"]
    ELSE IF w.watches[i].interruptCount + 1 >= 2
    THEN [w EXCEPT !.watches[i].interruptCount = @ + 1, !.interruptSent = TRUE,
                   !.hist.interrupts = Append(@, i), !.exited = TRUE, !.hist.exit = "130"]
    ELSE [w EXCEPT !.watches[i].interruptCount = @ + 1, !.interruptSent = TRUE,
                   !.hist.interrupts = Append(@, i)]
\* one listener of SIGINT runs: main's (0) or that of the i-th watchTodo
SigintListener(w, i) ==
    IF w.exited THEN w
    ELSE IF i = 0 THEN [w EXCEPT !.exited = TRUE, !.hist.exit = "130"]
    ELSE IF w.watches[i].interruptCount + 1 >= 2
    THEN [w EXCEPT !.watches[i].interruptCount = @ + 1, !.exited = TRUE, !.hist.exit = "130"]
    ELSE [w EXCEPT !.watches[i].interruptCount = @ + 1, !.interruptSent = TRUE,
                   !.hist.interrupts = Append(@, i)]

RECURSIVE SigintListenersRun(_, _, _)
SigintListenersRun(w, ls, k) ==
    IF k > Len(ls) THEN w
    ELSE CHOOSE r \in {SigintListenersRun(u, ls, k + 1) : u \in {SigintListener(w, ls[k])}} : TRUE

Running == loopAt \in {"prompt", "adding", "watching"} /\ ~exited

\* a, n and Enter, for the editor q, ? and Ctrl+C, for the approval prompt
\* y and r
WatchKeys == {97, 110, CR, 113, 63, ETX, 121, 114}

InitWatch ==
    /\ prompt = TodoPrompt
    /\ cols = DefaultCols
    /\ Started
    /\ NoStream
    /\ NoConfig
    /\ NoDiff
    /\ loopAt = "prompt"
    /\ wsCallback = "light"
    /\ buffered = <<>>
    /\ calls = 0
    /\ watches = [i \in 1..MaxCalls |-> NoCall]
    /\ sigintListeners = <<0>>
    /\ dataListeners = <<EditorListener>>
    /\ sentDecisions = <<>>
    /\ interruptSent = FALSE
    /\ exited = FALSE
    /\ nmsgs = 0
    /\ autoApprove \in BOOLEAN
    /\ hist = NoHistory

\* the websocket receives one message, or two in one read of the socket
ServerSends ==
    /\ Running
    /\ \E msgs \in {<<m>> : m \in MessagesOf(nmsgs + 1)}
                   \cup {<<m1, m2>> : m1 \in MessagesOf(nmsgs + 1), m2 \in MessagesOf(nmsgs + 2)} :
          /\ nmsgs + Len(msgs) <= MaxMsgs
          /\ (loopAt = "prompt" /\ \E k \in 1..Len(msgs) : msgs[k].type \notin IgnoreActivity)
                 => calls < MaxCalls
          /\ \E w \in {OnMessages([World EXCEPT !.nmsgs = @ + Len(msgs)], msgs, 1)} :
             \E v \in {RaceWon(w)} : Establish(v)

\* waitForCompletion resolves
Completes == Running /\ loopAt = "watching" /\ Establish(Returns(World, "true"))

\* waitForCompletion rejects after an interrupt was sent
Interrupted ==
    Running /\ loopAt = "watching" /\ interruptSent /\ Establish(Returns(World, "false"))

\* api.addMessage resolves
AddMessageDone ==
    Running /\ loopAt = "adding" /\ calls < MaxCalls /\ Establish(WatchTodo(World, <<>>))

\* api.addMessage rejects: catch { break }
AddMessageFails ==
    Running /\ loopAt = "adding" /\ Establish([World EXCEPT !.loopAt = "exited"])

\* the 1.5 s timer of handleApprovals fires
TimerFires ==
    \E i \in 1..MaxCalls :
        Running /\ watches[i].at = "delay" /\ Establish(SingleChar(World, i))

\* the terminal delivers one key to every "data" listener of stdin
KeyPress ==
    \E c \in WatchKeys :
        /\ Running
        /\ flowing
        /\ dataListeners # <<>>
        /\ c \in {113, 63, ETX} => listening
        /\ c \in {121, 114} => ~listening
        /\ (c \in {CR, ETX} \/ ~listening \/ (buf = <<>> /\ c \in {97, 113, 63}))
        /\ \E w \in {Listeners(World, dataListeners, 1, <<c>>)} :
           \E u \in {Answers(w, 1)} :
           \E v \in {RaceWon(u)} : Establish(v)

\* Ctrl+C while the terminal is not in raw mode
Sigint ==
    /\ Running
    /\ ~rawMode
    /\ \E w \in {[World EXCEPT !.hist.signals =
                                  Append(@, IF loopAt = "watching" THEN calls ELSE 0)]} :
           IF sigintListeners = <<>>
           THEN Establish([w EXCEPT !.exited = TRUE, !.hist.exit = "SIGINT"])
           ELSE Establish(SigintListenersRun(w, sigintListeners, 1))

NextWatch ==
    \/ ServerSends
    \/ Completes
    \/ Interrupted
    \/ AddMessageDone
    \/ AddMessageFails
    \/ TimerFires
    \/ KeyPress
    \/ Sigint

SpecWatch == InitWatch /\ [][NextWatch]_vars

\* an editing session of interactiveLoop is waiting for keys
EditorActive == loopAt = "prompt" /\ ~done /\ ~exited

\* singleChar of some watchTodo waits for its key
PromptWaiting == \E k \in 1..Len(dataListeners) : dataListeners[k] # EditorListener

(***************************************************************************)
(* One call of watchTodo that lasts: waitForCompletion does not settle.    *)
(* The timer of handleApprovals fires, and the user answers a prompt that  *)
(* waits for a key.                                                        *)
(***************************************************************************)
NextApprove == ServerSends \/ AddMessageDone \/ TimerFires \/ KeyPress

SpecApprove ==
    /\ InitWatch
    /\ [][NextApprove]_vars
    /\ WF_vars(TimerFires)
    /\ WF_vars(PromptWaiting /\ KeyPress)

(***************************************************************************)
(* ConfigStore of src/src/config.ts: the defaults and the lists of the     *)
(* recent projects and agents.  Project ids and agent names are numbers    *)
(* from 1 in the order of their first use; a call sets a new one, the      *)
(* first or the last of the recent list.  The name of project p is         *)
(* 100 + p; the first project is also set without its name.                *)
(***************************************************************************)
\* the length the recent lists are cut to
RecentMax == 10
\* new Date().toISOString()
Now == "2026-01-01T00:00:00.000Z"

\* name || id
NameOr(name, id) == IF name = Null THEN id ELSE name

\* setDefaultProject without its filter
SetDefaultProjectKeepsOld(d, id, name) ==
    [d EXCEPT !.default_project_id = id,
              !.default_project_name = NameOr(name, id),
              !.recent_projects =
                  Slice(<<[id |-> id, name |-> NameOr(name, id)]>> \o d.recent_projects,
                        0, RecentMax)]
\* setDefaultProject but for save()
SetDefaultProject(d, id, name) ==
    [d EXCEPT !.default_project_id = id,
              !.default_project_name = NameOr(name, id),
              !.recent_projects =
                  Slice(<<[id |-> id, name |-> NameOr(name, id)]>>
                            \o SelectSeq(d.recent_projects, LAMBDA p : p.id # id),
                        0, RecentMax)]

\* setDefaultAgent but for save()
SetDefaultAgent(d, name, settings) ==
    [d EXCEPT !.default_agent_name = name,
              !.default_agent_settings = settings,
              !.default_agent_settings_updated_at = Now,
              !.recent_agents =
                  Slice(<<name>> \o SelectSeq(d.recent_agents, LAMBDA a : a # name),
                        0, RecentMax)]

\* the ids and names a call is made with
ProjectIds ==
    {issued.projects + 1}
    \cup {data.recent_projects[k].id :
             k \in {j \in 1..Len(data.recent_projects) : j \in {1, Len(data.recent_projects)}}}
ProjectNames(id) == IF id = 1 THEN {Null, 100 + id} ELSE {100 + id}
AgentNames ==
    {issued.agents + 1}
    \cup {data.recent_agents[k] :
             k \in {j \in 1..Len(data.recent_agents) : j \in {1, Len(data.recent_agents)}}}

InitConfig ==
    /\ prompt = TodoPrompt
    /\ cols = DefaultCols
    /\ Started
    /\ NoStream
    /\ NoConfig
    /\ NoWatch
    /\ NoDiff

\* cfg.setDefaultProject(id, name)
SetProject ==
    /\ nsets < MaxSets
    /\ \E id \in ProjectIds : \E name \in ProjectNames(id) :
           /\ data' = SetDefaultProject(data, id, name)
           /\ issued' = [issued EXCEPT !.projects = Max(@, id)]
    /\ saved' = data'
    /\ nsets' = nsets + 1
    /\ UNCHANGED <<editorVars, diffVars, watchVars>>

\* cfg.setDefaultAgent(name, settings)
SetAgent ==
    /\ nsets < MaxSets
    /\ \E name \in AgentNames :
           /\ data' = SetDefaultAgent(data, name, [name |-> name])
           /\ issued' = [issued EXCEPT !.agents = Max(@, name)]
    /\ saved' = data'
    /\ nsets' = nsets + 1
    /\ UNCHANGED <<editorVars, diffVars, watchVars>>

NextConfig == SetProject \/ SetAgent

SpecConfig == InitConfig /\ [][NextConfig]_vars

(***************************************************************************)
(* Properties of the editing session (Spec).                               *)
(***************************************************************************)

\* C1: for every buffer, prompt length and width cols >= 1, the row of the
\* end of the buffer is the last row: rowOf(buf.length) = totalRows() - 1.
C1_EndRowIsLastRow == RowOf(Cur, Len(buf)) = TotalRows(Cur) - 1

\* a buffer of several logical lines one of which fills its rows exactly
C1_Witness ==
    /\ Len(Split(buf, LF)) >= 2
    /\ LineLen(Split(buf, LF), 0) > 0
    /\ LineLen(Split(buf, LF), 0) % cols = 0
    /\ TotalRows(Cur) >= 3

\* C2: whenever the editor waits for input, screenRow is the row the
\* terminal's cursor is on, counted from the row the prompt began on, and
\* every redraw has cleared from the prompt's first row.
C2_ScreenRowIsTerminalRow == ~done => (screenRow = term.row /\ term.clearRow = 0)

\* C3: the cursor offset stays within the buffer: 0 <= cursor <= buf.length.
C3_CursorInBuffer == cursor >= 0 /\ cursor <= Len(buf)

\* the cursor strictly inside a buffer that a paste or keys have filled
C3_Witness == Len(buf) >= 2 /\ cursor > 0 /\ cursor < Len(buf) /\ ~done

\* the row of the cell that holds the character before offset o (of the
\* prompt, when o begins the buffer), cols cells to a row, each logical line
\* starting a new row
RECURSIVE RowsOfLines(_, _)
RowsOfLines(lines, n) ==
    IF n = 0 THEN 0 ELSE RowsOfLines(lines, n - 1) + TotalRowsLine(LineLen(lines, n - 1))
RowOfCharBefore(o) ==
    RowsOfLines(Split(Slice(buf, 0, o), LF), Len(Split(Slice(buf, 0, o), LF)) - 1)
    + ((LineLen(Split(Slice(buf, 0, o), LF), Len(Split(Slice(buf, 0, o), LF)) - 1) - 1) \div cols)

\* C4: for every offset in [0, buf.length] colOf(offset) is in [0, cols], and
\* where it is cols the position in the logical line is a nonzero multiple
\* of cols and rowOf(offset) is still the row of the preceding character.
C4_ColInRangeAndDeferredWrap ==
    \A o \in 0..Len(buf) :
        /\ ColOf(Cur, o) \in 0..cols
        /\ ColOf(Cur, o) = cols =>
               /\ LinePos(o, LineStart(buf, o)) > 0
               /\ LinePos(o, LineStart(buf, o)) % cols = 0
               /\ RowOf(Cur, o) = RowOfCharBefore(o)

\* C5: raw mode, bracketed paste and the stdin listener are on exactly while
\* the session is active, the promise is settled exactly when it has ended,
\* and once it has ended no input changes the buffer or the terminal.
C5_TerminalHeldWhileActive ==
    /\ [](/\ rawMode = ~done
          /\ flowing = ~done
          /\ listening = ~done
          /\ term.bracketed = ~done
          /\ (promise.state # "pending") = done)
    /\ [][done => /\ buf' = buf
                  /\ cursor' = cursor
                  /\ term' = term
                  /\ rawMode' = rawMode
                  /\ listening' = listening]_vars

\* a session that Enter ended, with text submitted and the terminal released
C5_Witness ==
    /\ exitBy = "enter"
    /\ promise.state = "resolved"
    /\ promise.value # <<>>
    /\ ~rawMode /\ ~listening /\ ~term.bracketed

\* C6: cancel() on a pending editor rejects with "cancelled" and releases the
\* terminal in that step; a settled result never changes and finish writes
\* to the terminal at most once, whatever cancel() or input comes later.
C6_SettlesOnce ==
    /\ [](finishes <= 1)
    /\ [][/\ (promise.state = "pending" /\ exitBy' = "cancel") =>
                 /\ promise' = [state |-> "rejected", value |-> <<>>, error |-> "cancelled"]
                 /\ done' /\ ~rawMode' /\ ~listening' /\ ~term'.bracketed
          /\ promise.state # "pending" =>
                 /\ promise' = promise
                 /\ finishes' = finishes
                 /\ exitBy' = exitBy
                 /\ term' = term]_vars

\* cancel() ended a session in which text had been typed
C6_Witness ==
    /\ exitBy = "cancel"
    /\ buf # <<>>
    /\ promise.state = "rejected"
    /\ finishes = 1

\* C7: a cancelled session (Ctrl+C or cancel()) is a result of its own, told
\* apart from every submitted text and not surfaced as an error: the result
\* promise is not rejected.
C7_CancelledIsNoError == exitBy \in {"ctrlc", "cancel"} => promise.state # "rejected"

\* C11: every stdin event of one key (or one paste chunk) that changes the
\* buffer or the cursor offset calls redraw() exactly once before the next
\* event is handled.
C11_OneRedrawPerChange ==
    [][(buf' # buf \/ cursor' # cursor) => redraws' = 1]_vars

\* inside a paste: the latest event was a paste chunk, which inserted text
C11_Witness == pasting /\ redraws = 1 /\ Len(buf) >= 2 /\ ~done

(***************************************************************************)
(* Properties of input streams (SpecParse).                                *)
(***************************************************************************)
\* CR LF, a lone CR and a lone LF each as one LF: the LF after a CR dropped,
\* then every CR an LF
NewlinesAsLf(t) ==
    LET keep == {i \in 1..Len(t) : ~(t[i] = LF /\ i > 1 /\ t[i - 1] = CR)}
        at(k) == CHOOSE i \in keep : Cardinality({j \in keep : j <= i}) = k
    IN  [k \in 1..Cardinality(keep) |-> IF t[at(k)] = CR THEN LF ELSE t[at(k)]]

\* C8: a bracketed paste arriving in one chunk with the cursor at c inserts
\* the text, newlines normalised, at c, leaves the cursor after it and the
\* session running: no byte of the text acts as a key.
C8_PasteInOneChunk ==
    (kind = "paste" /\ pending = <<>> /\ nchunks = 1) =>
        /\ buf = Slice(pre.buf, 0, pre.cursor) \o NewlinesAsLf(pre.text)
                 \o SliceFrom(pre.buf, pre.cursor)
        /\ cursor = pre.cursor + Len(NewlinesAsLf(pre.text))
        /\ ~done /\ ~pasting /\ promise = Pending /\ rawMode
        /\ (pre.text = Line1Line2 /\ pre.buf = <<>>) =>
               (buf = Line1Line2 /\ cursor = 11 /\ Len(Split(buf, LF)) = 2)

\* "a\r\nb" pasted in one chunk between two typed characters
C8_Witness ==
    /\ kind = "paste" /\ pending = <<>> /\ nchunks = 1
    /\ pre.text = <<Chr("a"), CR, LF, Chr("b")>>
    /\ Len(pre.buf) = 2 /\ pre.cursor = 1
    /\ Len(buf) = 5

\* C9: however the bytes of a paste (start marker, text, end marker) are cut
\* into chunks, buffer, cursor and paste flag end as when they arrive in one
\* chunk, and paste mode has ended.
C9_SplitPasteAsWhole ==
    (kind = "paste" /\ pending = <<>>) => (Seen(Cur) = ref /\ ~pasting)

\* C10: a CSI key sequence, Alt+Enter or the paste start marker cut across
\* two consecutive chunks acts as the same bytes in one chunk.
C10_SplitSequenceAsWhole ==
    (kind \in {"csi", "altenter", "pastestart"} /\ pending = <<>> /\ nchunks = 2) =>
        Seen(Cur) = ref

(***************************************************************************)
(* Properties of the editing keys (SpecKeys).                              *)
(***************************************************************************)
\* where a word deletion from offset c ends: back over the spaces before c
\* and the run of non-space characters before them, not past the start of
\* c's line
WordDeleteStart(b, c) ==
    CHOOSE s \in 0..c :
        /\ \A k \in (s + 1)..c : b[k] # LF /\ (b[k] = SP => \A j \in k..c : b[j] = SP)
        /\ \A t \in 0..(s - 1) :
               \E k \in (t + 1)..c : b[k] = LF \/ (b[k] = SP /\ \E j \in k..c : b[j] # SP)

\* C12: Ctrl+W with the cursor right after a space removes that run of
\* spaces and the word before it, stopping at the start of the current line
\* when the line holds no earlier word; the text after the cursor is kept
\* and the cursor is not negative.
C12_DeleteWordBackInLine ==
    (kind = "ctrlw" /\ pending = <<>> /\ pre.cursor > 0 /\ pre.buf[pre.cursor] = SP) =>
        /\ buf = Slice(pre.buf, 0, WordDeleteStart(pre.buf, pre.cursor))
                 \o SliceFrom(pre.buf, pre.cursor)
        /\ cursor = WordDeleteStart(pre.buf, pre.cursor)
        /\ cursor >= 0

\* offset p has a non-space character on both sides
InsideWord(b, p) == p > 0 /\ p < Len(b) /\ b[p] # SP /\ b[p + 1] # SP
\* where the run of non-space characters ending at offset p starts
WordStart(b, p) ==
    CHOOSE s \in 0..p :
        /\ \A k \in (s + 1)..p : b[k] # SP
        /\ s > 0 => b[s] = SP

\* C13: word-right then word-left from inside a word ends at or before the
\* start of that word; from a boundary doing both twice ends where doing
\* them once does; neither motion changes the buffer or leaves [0, length].
C13_WordRightThenLeft ==
    /\ kind \in {"wordright", "wordleft", "rightleft2"} =>
           (buf = pre.buf /\ cursor >= 0 /\ cursor <= Len(buf))
    /\ (kind = "rightleft2" /\ nchunks = 2) =>
           /\ InsideWord(pre.buf, pre.cursor) => cursor <= WordStart(pre.buf, pre.cursor)
           /\ ~InsideWord(pre.buf, pre.cursor) => cursor = ref.cursor

\* from inside the second word of the buffer, back to that word's start
C13_Witness ==
    /\ kind = "rightleft2" /\ nchunks = 2
    /\ InsideWord(pre.buf, pre.cursor)
    /\ WordStart(pre.buf, pre.cursor) > 0
    /\ cursor = WordStart(pre.buf, pre.cursor)

NotBlank(b) == {i \in 1..Len(b) : b[i] \notin {9, LF, VT, 12, CR, SP}}
Trimmed(b) ==
    IF NotBlank(b) = {} THEN <<>>
    ELSE SubSeq(b, CHOOSE i \in NotBlank(b) : \A j \in NotBlank(b) : i <= j,
                   CHOOSE i \in NotBlank(b) : \A j \in NotBlank(b) : i >= j)

\* C15: Enter resolves with the whole buffer, every line of it and wherever
\* the cursor is, trimmed of leading and trailing white space; what follows
\* the Enter, in its chunk or later, changes nothing.
C15_EnterSubmitsTrimmedBuffer ==
    (kind = "enter" /\ nchunks >= 1) =>
        /\ done
        /\ exitBy = "enter"
        /\ promise = [state |-> "resolved", value |-> Trimmed(pre.buf), error |-> ""]
        /\ buf = pre.buf

\* Enter, with bytes after it, on two lines with white space around them and
\* the cursor not at the end
C15_Witness ==
    /\ kind = "enter" /\ pending = <<>>
    /\ Len(pre.text) > 1
    /\ pre.cursor < Len(pre.buf)
    /\ promise.state = "resolved"
    /\ LF \in {promise.value[i] : i \in 1..Len(promise.value)}
    /\ Len(promise.value) < Len(pre.buf)

(***************************************************************************)
(* Properties of renderDiff (SpecDiff).                                    *)
(***************************************************************************)
\* C16: renderDiff returns the empty string exactly when no DiffLine is
\* Removed or Added, so for identical texts and for two empty ones; when the
\* texts differ the output is not empty and starts with the header naming
\* filePath.
C16_EmptyIffNoChange ==
    returned =>
        /\ (rendered = <<>>) <=> (\A i \in 1..Len(diffLines) : diffLines[i].op = 0)
        /\ originalContent = modifiedContent => rendered = <<>>
        /\ originalContent # modifiedContent =>
               (rendered # <<>> /\ rendered[1] = [kind |-> "header", path |-> filePath])

\* identical texts of several lines: context lines only, nothing rendered
C16_Witness ==
    /\ returned
    /\ originalContent = modifiedContent
    /\ Len(diffLines) >= 3
    /\ rendered = <<>>

\* What a terminal shows of a string: its printed characters, each with the
\* foreground and background colour the SGR sequences before it have set
\* (<<>> is the terminal's default colour).
RECURSIVE SgrApply(_, _)
SgrApply(ns, st) ==
    IF ns = <<>> THEN st
    ELSE IF ns[1] = 0 \/ ns[1] = -1 THEN SgrApply(Tail(ns), [st EXCEPT !.fg = <<>>, !.bg = <<>>])
    ELSE IF ns[1] = 39 THEN SgrApply(Tail(ns), [st EXCEPT !.fg = <<>>])
    ELSE IF ns[1] = 49 THEN SgrApply(Tail(ns), [st EXCEPT !.bg = <<>>])
    ELSE IF ns[1] = 38 /\ Len(ns) >= 5 /\ ns[2] = 2
    THEN SgrApply(SubSeq(ns, 6, Len(ns)), [st EXCEPT !.fg = SubSeq(ns, 3, 5)])
    ELSE IF ns[1] = 48 /\ Len(ns) >= 5 /\ ns[2] = 2
    THEN SgrApply(SubSeq(ns, 6, Len(ns)), [st EXCEPT !.bg = SubSeq(ns, 3, 5)])
    ELSE SgrApply(Tail(ns), st)
SgrNumbers(params) == [k \in 1..Len(Split(params, SEMI)) |-> ParseInt(Split(params, SEMI)[k])]
PaintByte(c, st) ==
    IF st.mode = "text"
    THEN (IF c = ESC THEN [st EXCEPT !.mode = "esc"]
          ELSE [st EXCEPT !.cells = @ \o <<[ch |-> c, fg |-> st.fg, bg |-> st.bg]>>])
    ELSE IF st.mode = "esc"
    THEN (IF c = LBRACKET THEN [st EXCEPT !.mode = "csi", !.params = <<>>]
          ELSE [st EXCEPT !.mode = "text"])
    ELSE IF IsParamByte(c) THEN [st EXCEPT !.params = @ \o <<c>>]
    ELSE IF c = Chr("m") THEN SgrApply(SgrNumbers(st.params), [st EXCEPT !.mode = "text"])
    ELSE [st EXCEPT !.mode = "text"]
RECURSIVE Paint(_, _, _, _)
Paint(s, from, to, st) ==
    IF from >= to THEN st
    ELSE IF to = from + 1 THEN PaintByte(s[from + 1], st)
    ELSE CHOOSE r \in {Paint(s, (from + to) \div 2, to, u) :
                          u \in {Paint(s, from, (from + to) \div 2, st)}} : TRUE
Cells(s) ==
    Paint(s, 0, Len(s),
          [mode |-> "text", params |-> <<>>, fg |-> <<>>, bg |-> <<>>, cells |-> <<>>]).cells
\* a string without its SGR sequences
PlainOf(cells) == [i \in 1..Len(cells) |-> cells[i].ch]
Plain(s) == CHOOSE r \in {PlainOf(cs) : cs \in {Cells(s)}} : TRUE

\* the one position at which two sequences of equal length differ, 0 if the
\* lengths differ or the positions are not exactly one
OnlyDifference(a, b) ==
    IF Len(a) = Len(b) /\ Cardinality({k \in 1..Len(a) : a[k] # b[k]}) = 1
    THEN CHOOSE k \in 1..Len(a) : a[k] # b[k]
    ELSE 0
\* a line without its newline
Bare(line) == IF line # <<>> /\ line[Len(line)] = LF THEN SubSeq(line, 1, Len(line) - 1) ELSE line

\* what C17 says when line k is the only one that differs
OneLineChanged(ol, ml, k) ==
    /\ Len(diffLines) = Len(ol) + 1
    /\ \A i \in 1..(k - 1) : diffLines[i].op = 0 /\ diffLines[i].text = Bare(ol[i])
    /\ diffLines[k].op = -1 /\ diffLines[k].hl /\ diffLines[k].origLine = k
    /\ Plain(diffLines[k].text) = Bare(ol[k])
    /\ diffLines[k + 1].op = 1 /\ diffLines[k + 1].hl /\ diffLines[k + 1].modLine = k
    /\ Plain(diffLines[k + 1].text) = Bare(ml[k])
    /\ \A i \in (k + 2)..Len(diffLines) :
           diffLines[i].op = 0 /\ diffLines[i].text = Bare(ol[i - 1])

\* C17: when exactly one line differs between the texts, the DiffLines are
\* Context lines but for one Removed line with the old text directly
\* followed by one Added line with the new text, both from the paired branch
\* that computes word-level spans.
C17_OneLineChange ==
    (returned /\ OnlyDifference(DiffLinesOf(originalContent), DiffLinesOf(modifiedContent)) > 0) =>
        OneLineChanged(DiffLinesOf(originalContent), DiffLinesOf(modifiedContent),
                       OnlyDifference(DiffLinesOf(originalContent), DiffLinesOf(modifiedContent)))

\* "a\nb\nc\n" against "a\nB\nc\n"
C17_Witness ==
    /\ returned
    /\ originalContent = <<97, LF, 98, LF, 99, LF>>
    /\ modifiedContent = <<97, LF, 66, LF, 99, LF>>
    /\ Len(diffLines) = 4
    /\ diffLines[2].op = -1 /\ diffLines[3].op = 1

\* the number of lines of a text
CountLines(t) ==
    Cardinality({i \in 1..Len(t) : t[i] = LF})
    + (IF t # <<>> /\ t[Len(t)] # LF THEN 1 ELSE 0)
OfOriginal(dl) == dl.op # 1
OfModified(dl) == dl.op # -1

\* C18: Context lines carry both line numbers, Removed lines only the
\* original one, Added lines only the modified one; in sequence order the
\* original numbers run 1..(lines of the original) and the modified numbers
\* 1..(lines of the modification), whatever the sizes of a pair's blocks.
C18_LineNumbersInOrder ==
    returned =>
        /\ \A i \in 1..Len(diffLines) :
               /\ diffLines[i].op = 0 => {"origLine", "modLine"} \subseteq DOMAIN diffLines[i]
               /\ diffLines[i].op = -1 =>
                      ("origLine" \in DOMAIN diffLines[i] /\ "modLine" \notin DOMAIN diffLines[i])
               /\ diffLines[i].op = 1 =>
                      ("modLine" \in DOMAIN diffLines[i] /\ "origLine" \notin DOMAIN diffLines[i])
        /\ [i \in 1..Len(SelectSeq(diffLines, OfOriginal)) |->
               SelectSeq(diffLines, OfOriginal)[i].origLine]
           = [i \in 1..CountLines(originalContent) |-> i]
        /\ [i \in 1..Len(SelectSeq(diffLines, OfModified)) |->
               SelectSeq(diffLines, OfModified)[i].modLine]
           = [i \in 1..CountLines(modifiedContent) |-> i]

\* a pair of one removed line and two added ones, context on both sides
C18_Witness ==
    /\ returned
    /\ \E i \in 2..(Len(diffLines) - 3) :
           /\ diffLines[i - 1].op = 0
           /\ diffLines[i].op = -1 /\ diffLines[i].hl
           /\ diffLines[i + 1].op = 1
           /\ diffLines[i + 2].op = 1
           /\ diffLines[i + 3].op = 0

\* the members of a set of numbers in ascending order
RECURSIVE Ascending(_)
Ascending(S) ==
    IF S = {} THEN <<>>
    ELSE <<CHOOSE x \in S : \A y \in S : x <= y>>
         \o Ascending(S \ {CHOOSE x \in S : \A y \in S : x <= y})

\* indices of the DiffLines at most 3 positions from a changed one
NearChange ==
    {i \in 0..(Len(diffLines) - 1) :
        \E c \in 0..(Len(diffLines) - 1) :
            diffLines[c + 1].op # 0 /\ i - c <= 3 /\ c - i <= 3}
\* positions of the diff lines in the output
ShownAt == {k \in 1..Len(rendered) : rendered[k].kind = "line"}

\* C19: below the cap the diff lines of the output are the DiffLines that
\* are changed or within 3 positions of a changed one, each once, in
\* sequence order, and no others.
C19_WindowOfThree ==
    (returned /\ rendered # <<>> /\ Len(rendered) < MAX_OUTPUT_LINES) =>
        [j \in 1..Cardinality(ShownAt) |-> rendered[Ascending(ShownAt)[j]]]
        = [j \in 1..Cardinality(NearChange) |-> LinePart(diffLines[Ascending(NearChange)[j] + 1])]

\* two changes far apart: context shown around both, lines hidden between
C19_Witness ==
    /\ returned
    /\ Cardinality(ChangedIdx(diffLines)) >= 2
    /\ Cardinality(NearChange) > Cardinality(ChangedIdx(diffLines))
    /\ \E i \in NearChange : \E j \in NearChange : \E h \in (i + 1)..(j - 1) : h \notin NearChange
    /\ Cardinality(ShownAt) = Cardinality(NearChange)

\* the j-th diff line of the output has a skipped marker right before it
MarkerBefore(j) == rendered[Ascending(ShownAt)[j] - 1].kind = "skipped"

\* C20: a skipped marker stands before a shown line only if the DiffLine
\* before that line is hidden, one stands before every window that follows
\* another, and there are no other markers.
C20_MarkerOnlyForHidden ==
    (returned /\ rendered # <<>> /\ Len(rendered) < MAX_OUTPUT_LINES) =>
        /\ Cardinality(ShownAt) = Cardinality(NearChange)
        /\ \A j \in 1..Cardinality(ShownAt) :
               /\ MarkerBefore(j) =>
                      (Ascending(NearChange)[j] > 0
                       /\ Ascending(NearChange)[j] - 1 \notin NearChange)
               /\ (j > 1 /\ Ascending(NearChange)[j] - 1 \notin NearChange) => MarkerBefore(j)
        /\ Cardinality({k \in 1..Len(rendered) : rendered[k].kind = "skipped"})
           = Cardinality({j \in 1..Cardinality(ShownAt) : MarkerBefore(j)})

\* C21: the lines renderDiff outputs, the header, the skipped markers and
\* the diff lines but not the final "more lines" marker, are at most 80.
C21_AtMostCapLines ==
    returned => Cardinality({k \in 1..Len(rendered) : rendered[k].kind # "more"}) <= MAX_OUTPUT_LINES

\* the "more lines" markers of the output
MoreAt == {k \in 1..Len(rendered) : rendered[k].kind = "more"}

\* C22: when windowed DiffLines are left unrendered the output ends with
\* exactly one "more lines" marker whose number is the count of those lines;
\* when every windowed line was rendered there is no such marker.
C22_MoreCountsTheRest ==
    (returned /\ rendered # <<>>) =>
        IF Cardinality(ShownAt) < Cardinality(NearChange)
        THEN /\ MoreAt = {Len(rendered)}
             /\ rendered[Len(rendered)].n = Cardinality(NearChange) - Cardinality(ShownAt)
        ELSE MoreAt = {}

\* the cap cut a window in two: more than one line is left out
C22_Witness ==
    /\ returned
    /\ MoreAt # {}
    /\ rendered[Len(rendered)].n >= 2
    /\ Cardinality(ShownAt) + rendered[Len(rendered)].n = Cardinality(NearChange)

(***************************************************************************)
(* Properties of the colours of renderDiff (SpecColour).                   *)
(***************************************************************************)
\* what renderDiff returns for the same texts and a path without extension
Uncoloured == Render(DiffLinesFor(originalContent, modifiedContent, NotesPath), NotesPath)
SamePart(p, q) ==
    /\ p.kind = q.kind
    /\ p.kind = "line" =>
           /\ p.op = q.op
           /\ p.pad = q.pad
           /\ Plain(p.text) = Plain(q.text)
           /\ Plain(p.out) = Plain(q.out)
    /\ p.kind = "more" => p.n = q.n
SameParts(ps, qs) == Len(ps) = Len(qs) /\ \A k \in 1..Len(ps) : SamePart(ps[k], qs[k])

\* C23: renderDiff returns whatever syntax colouring does: for a path
\* without extension and for an extension without grammar (highlight
\* throws) the lines are those of the plain text, and with colouring the
\* output has the same lines, line numbers and markers as without.
C23_ColouringKeepsLines ==
    returned =>
        \A plain \in {Uncoloured} :
            /\ SameParts(rendered, plain)
            /\ SliceFrom(Extname(filePath), 1) \notin Grammars =>
                   \A k \in 2..Len(rendered) : rendered[k] = plain[k]

\* a coloured number in a line of a paired change
C23_Witness ==
    /\ returned
    /\ SliceFrom(Extname(filePath), 1) \in Grammars
    /\ \E k \in 2..Len(rendered) :
           /\ rendered[k].kind = "line" /\ rendered[k].hl
           /\ rendered[k].text # Plain(rendered[k].text)
           /\ \E c \in 1..Len(Cells(rendered[k].out)) : Cells(rendered[k].out)[c].fg = <<174, 129, 255>>

\* The removed lines and the added lines of a paired change, as texts.
PairedOld == SelectSeq(diffLines, LAMBDA dl : dl.op = -1 /\ dl.hl)
PairedNew == SelectSeq(diffLines, LAMBDA dl : dl.op = 1 /\ dl.hl)
BlockOf(dls) == JoinLf([j \in 1..Len(dls) |-> Plain(dls[j].text)])
\* the 0-based offset in its block of column c (from 1) of the j-th line
RECURSIVE OffsetIn(_, _, _)
OffsetIn(dls, j, c) ==
    IF j = 1 THEN c - 1 ELSE Len(Plain(dls[1].text)) + 1 + OffsetIn(Tail(dls), j - 1, c)
\* the character-level diff marks offset o of a block unchanged: it is in the
\* first kp or in the last ks characters
UnchangedAt(block, kp, ks, o) == o < kp \/ o >= Len(block) - ks
\* the cells of a DiffLine in the output but for the newline that ends it;
\* the text begins after the six cells of line number and marker
LineCells(dl) == SubSeq(Cells(LinePart(dl).out), 1, Len(Cells(LinePart(dl).out)) - 1)
\* the cells of line n of a text coloured as a whole
SyntaxCells(text, n) == Cells(SyntaxHighlight(text, filePath)[n])

\* the unchanged characters of the lines dls that have a syntax colour are
\* shown in it; syn(n) are the cells of line n of the coloured text
SyntaxColourKept(dls, block, kp, ks, text) ==
    \A j \in 1..Len(dls) :
        \A cells \in {LineCells(dls[j])} :
        \A syn \in {SyntaxCells(text, IF dls[j].op = 1 THEN dls[j].modLine ELSE dls[j].origLine)} :
            \A c \in 1..Len(syn) :
                (UnchangedAt(block, kp, ks, OffsetIn(dls, j, c)) /\ syn[c].fg # <<>>)
                => cells[6 + c].fg = syn[c].fg

\* C24: in a paired change a character of an unchanged range that has a
\* syntax colour in the text coloured as a whole is shown in that colour.
C24_UnchangedKeepsSyntaxColour ==
    returned =>
        \A olds \in {PairedOld} : \A news \in {PairedNew} :
        \A ob \in {BlockOf(olds)} : \A nb \in {BlockOf(news)} :
        \A kp \in {CommonPrefix(ob, nb)} :
        \A ks \in {CommonSuffix(SliceFrom(ob, kp), SliceFrom(nb, kp))} :
            /\ SyntaxColourKept(olds, ob, kp, ks, originalContent)
            /\ SyntaxColourKept(news, nb, kp, ks, modifiedContent)

\* the changed characters of the lines dls are on the background high, all
\* their other characters on the background low
BackgroundsOf(dls, block, kp, ks, high, low) ==
    \A j \in 1..Len(dls) :
        \A cells \in {LineCells(dls[j])} :
            \A k \in 1..Len(cells) :
                cells[k].bg = (IF k > 6 /\ ~UnchangedAt(block, kp, ks, OffsetIn(dls, j, k - 6))
                               THEN high ELSE low)

\* C25: in a paired change the characters of a changed range are shown on
\* the highlight background, red on removed and green on added lines, and
\* all other characters of these lines on the background of the line.
C25_ChangedOnHighlight ==
    returned =>
        \A olds \in {PairedOld} : \A news \in {PairedNew} :
        \A ob \in {BlockOf(olds)} : \A nb \in {BlockOf(news)} :
        \A kp \in {CommonPrefix(ob, nb)} :
        \A ks \in {CommonSuffix(SliceFrom(ob, kp), SliceFrom(nb, kp))} :
            /\ BackgroundsOf(olds, ob, kp, ks, <<100, 35, 35>>, <<55, 20, 20>>)
            /\ BackgroundsOf(news, nb, kp, ks, <<35, 85, 35>>, <<20, 45, 20>>)

(***************************************************************************)
(* Properties of interactiveLoop and watchTodo (SpecWatch).                *)
(***************************************************************************)

\* C26: while an editing session is active it is the only reader of stdin
\* and the only owner of raw mode: no approval prompt (singleChar called by
\* handleApprovals, also after its 1.5 s delay and after watchTodo returned)
\* waits for a key at the same time, and stdin stays raw and resumed.
C26_EditorAloneOnStdin ==
    EditorActive => ~PromptWaiting /\ rawMode /\ flowing

\* where the n-th message of the server is: handled by a callback of
\* watchTodo, kept in the buffer of the prompt (still there when the loop
\* ended because the prompt was cancelled), discarded with that buffer,
\* or arrived while the websocket had no callback for the todo
PlacesOf(n) ==
    UNION {{<<i, k>> : k \in {j \in 1..Len(watches[i].handled) : watches[i].handled[j] = n}} :
              i \in 1..MaxCalls}
    \cup {<<0, k>> : k \in {j \in 1..Len(buffered) :
                              loopAt \in {"prompt", "exited"} /\ buffered[j].id = n}}
    \cup {<<-1, k>> : k \in {j \in 1..Len(hist.discarded) : hist.discarded[j].id = n}}
    \cup {<<-2, 0>> : k \in {j \in hist.dropped : j = n}}

Increasing(ids) == \A j, k \in 1..Len(ids) : j < k => ids[j] < ids[k]

IsPrefix(a, b) == Len(a) <= Len(b) /\ SubSeq(b, 1, Len(a)) = a

\* C27: no message is lost between the prompt and watchTodo.  Every message
\* that arrived while a callback was set is in exactly one place; a watchTodo
\* started by activity handles first the buffered messages, each once and in
\* their order, then the newer ones; a buffer discarded because the input
\* won holds only messages of the ignored types.
C27_NoMessageLostInHandoff ==
    /\ \A n \in 1..nmsgs :
           Cardinality(PlacesOf(n)) = 1
    /\ \A i \in 1..calls :
           /\ Increasing(watches[i].handled)
           /\ IsPrefix(watches[i].replayMessages, watches[i].handled)
    /\ \A k \in 1..Len(hist.discarded) : hist.discarded[k].type \in IgnoreActivity

\* a watchTodo that replayed an ignored message and the message that
\* cancelled the prompt
C27_Witness ==
    /\ calls >= 1
    /\ watches[1].replayMessages = <<1, 2>>
    /\ watches[1].handled = <<1, 2>>
    /\ watches[1].pendingBlocks # <<>> \/ watches[1].blocks # <<>>

(***************************************************************************)
(* Properties of the approvals of one watchTodo (SpecApprove).             *)
(***************************************************************************)

\* how many decisions the i-th watchTodo has sent for block n
DecisionsFor(i, n) ==
    Cardinality({k \in 1..Len(sentDecisions) :
                    sentDecisions[k].watch = i /\ sentDecisions[k].block = n})

\* how many prompts of the i-th watchTodo are outstanding
PromptsOf(i) ==
    Cardinality({k \in 1..Len(dataListeners) : dataListeners[k].who = i})
    + (IF watches[i].at = "delay" THEN 1 ELSE 0)

IdsOf(blocks) == {blocks[k].id : k \in 1..Len(blocks)}

\* at most one prompt, no block queued without a prompt in progress, every
\* block awaiting approval queued, shown or decided, and decided once
ApprovalsInOrder(i) ==
    /\ PromptsOf(i) <= 1
    /\ PromptsOf(i) = 1 <=> watches[i].blocks # <<>>
    /\ watches[i].pendingBlocks # <<>> => PromptsOf(i) = 1
    /\ \A k \in 1..Len(sentDecisions) :
           sentDecisions[k].watch = i =>
               \E j \in 1..Len(watches[i].awaited) :
                   watches[i].awaited[j] = sentDecisions[k].block
    /\ \A j \in 1..Len(watches[i].awaited) :
           \A n \in {watches[i].awaited[j]} :
               (IF n \in IdsOf(watches[i].pendingBlocks) THEN 1 ELSE 0)
               + (IF n \in IdsOf(watches[i].blocks) THEN 1 ELSE 0)
               + DecisionsFor(i, n) = 1

AwaitsApproval(i, n) == \E j \in 1..Len(watches[i].awaited) : watches[i].awaited[j] = n

\* C28: within one watchTodo every BLOCK_UPDATE with status AWAITING_APPROVAL
\* leads, once the user answers, to exactly one decision for its block: at
\* most one approval prompt is outstanding, decisions are sent only for
\* blocks that await approval and once, and no block stays queued forever.
C28_EveryAwaitingBlockDecided ==
    /\ [](\A i \in 1..MaxCalls : ApprovalsInOrder(i))
    /\ \A i \in 1..MaxCalls : \A n \in 1..MaxMsgs :
           AwaitsApproval(i, n) ~> (DecisionsFor(i, n) = 1)

\* a block queued while the prompt for another one was outstanding, both
\* decided, in two prompts
C28_Witness ==
    /\ watches[1].awaited = <<1, 2>>
    /\ sentDecisions = << [watch |-> 1, block |-> 1, decision |-> "deny"],
                          [watch |-> 1, block |-> 2, decision |-> "allow_once"] >>

(***************************************************************************)
(* Properties of the SIGINT listeners (SpecWatch).                         *)
(***************************************************************************)

\* the listener main installs before it enters interactiveLoop
MainListeners == <<0>>

\* C29: while watchTodo runs its own SIGINT handler is the only listener,
\* and on every return path, completion and interruption, the listeners are
\* again exactly those installed before the call, in the same order.
C29_SigintListenersRestored ==
    /\ loopAt = "watching" => sigintListeners = <<calls>>
    /\ loopAt \in {"prompt", "adding", "exited"} => sigintListeners = MainListeners
    /\ \A i \in 1..calls : watches[i].origHandler = MainListeners

\* watchTodo has returned false after Ctrl+C and an interrupt
C29_Witness ==
    /\ calls >= 1
    /\ watches[1].result = "false"
    /\ watches[1].interruptCount = 1
    /\ loopAt = "prompt"

(***************************************************************************)
(* Properties of the unrecognised keys (SpecKeys).                         *)
(***************************************************************************)

\* the bytes of a chunk after the first control sequence in it: ESC [,
\* then bytes below 64, then the final byte
FinalAt(chunk) == CHOOSE k \in 3..Len(chunk) : chunk[k] >= 64 /\ \A j \in 3..(k - 1) : chunk[j] < 64
AfterFinal(chunk) == SubSeq(chunk, FinalAt(chunk) + 1, Len(chunk))

\* C30: a CSI sequence (ESC [, parameter bytes that are digits and
\* semicolons, a final byte) that is complete within the chunk and whose
\* final byte is none of D, C, H, F and not ~ with code 3 is consumed whole
\* and dropped: the editor is after the chunk what it would be had the chunk
\* begun after the final byte, so buffer, cursor and screenRow are unchanged
\* by the sequence, it causes no redraw and none of its bytes is inserted.
C30_UnknownCsiDropped ==
    [][(kind = "unknowncsi" /\ pending # <<>>) =>
           \A r \in {Emit(Cur, AfterFinal(Head(pending)))} : Cur' = r]_vars

\* Ctrl+Up followed by Left in one chunk, with the cursor inside the text:
\* nothing inserted, the cursor moved by the Left alone
C30_Witness ==
    /\ kind = "unknowncsi" /\ pending = <<>>
    /\ pre.text = Csi(<<Chr("1"), SEMI, Chr("5")>>, "A") \o Csi(<<>>, "D")
    /\ pre.cursor > 1 /\ pre.cursor < Len(pre.buf)
    /\ buf = pre.buf
    /\ cursor = pre.cursor - 1
    /\ redraws = 1

\* C31: an ESC followed by a byte that is neither "[" nor CR is recovered
\* from silently: the ESC and that one byte are consumed and the byte is not
\* taken as a key, not even LF or Ctrl+C; a lone ESC at the end of a chunk is
\* consumed alone.  The editor is after the chunk what it would be had the
\* chunk begun after the two bytes: buffer and cursor are unchanged by them,
\* the session is not ended and the promise is not rejected.
C31_EscPairSkipped ==
    [][(kind = "escpair" /\ pending # <<>>) =>
           \A r \in {Emit(Cur, SubSeq(Head(pending), 3, Len(Head(pending))))} : Cur' = r]_vars

\* ESC LF arrived with the cursor inside the text: nothing changed, the
\* session goes on
C31_Witness ==
    /\ kind = "escpair" /\ pending = <<>>
    /\ pre.text = <<ESC, LF>>
    /\ pre.cursor > 0 /\ pre.cursor < Len(pre.buf)
    /\ buf = pre.buf /\ cursor = pre.cursor
    /\ ~done /\ promise = Pending

\* the typed text with a newline put in at the cursor
WithNewline == SubSeq(pre.buf, 1, pre.cursor) \o <<LF>> \o SubSeq(pre.buf, pre.cursor + 1, Len(pre.buf))

\* C32: ESC immediately followed by CR (Alt+Enter) inserts exactly one
\* newline at the cursor, advances the cursor by one and does not end the
\* session; a CR or LF that no escape sequence consumes and that arrives
\* outside a paste ends the session with a submit.
C32_AltEnterInsertsEnterSubmits ==
    /\ (kind = "altenter" /\ nchunks = 1) =>
           /\ buf = WithNewline
           /\ cursor = pre.cursor + 1
           /\ ~done /\ promise = Pending /\ rawMode /\ listening
    /\ (kind = "altenter" /\ nchunks = 2) =>
           /\ buf = WithNewline
           /\ done /\ exitBy = "enter"
           /\ promise.state = "resolved"
    /\ (kind = "enter" /\ nchunks >= 1) =>
           /\ done /\ exitBy = "enter" /\ promise.state = "resolved"

\* Alt+Enter with the cursor inside a text that already has two lines
C32_Witness ==
    /\ kind = "altenter" /\ nchunks = 1
    /\ pre.cursor > 0 /\ pre.cursor < Len(pre.buf)
    /\ \E k \in 1..Len(pre.buf) : pre.buf[k] = LF
    /\ buf = WithNewline
    /\ ~done

(***************************************************************************)
(* Properties of the end of the session (Spec).                            *)
(***************************************************************************)

\* the rows a logical line of n cells takes on a terminal cols wide
RowsTaken(n) == IF n = 0 THEN 1 ELSE (n + cols - 1) \div cols

RECURSIVE RowsTakenBy(_, _)
RowsTakenBy(lines, k) ==
    IF k > Len(lines) THEN 0
    ELSE RowsTaken(Len(lines[k]) + (IF k = 1 THEN promptLen ELSE 0)) + RowsTakenBy(lines, k + 1)

\* the last row that prompt and buffer occupy, counted from the prompt's row
ContentLastRow == RowsTakenBy(Split(buf, LF), 1) - 1

\* C33: when the session ends, by submit or cancel, the editor once moves the
\* terminal cursor down from the tracked row to the last row of prompt and
\* buffer, disables bracketed paste, emits a newline and turns raw mode off:
\* the terminal cursor ends on the row directly below the content, whatever
\* the cursor position the session ended with.
C33_EndsBelowContent ==
    [][(~done /\ done') =>
           /\ finishes' = 1
           /\ term'.row = ContentLastRow' + 1
           /\ ~term'.bracketed
           /\ ~rawMode']_vars

(***************************************************************************)
(* Properties of the blocks of renderDiff (SpecDiff).                      *)
(***************************************************************************)

HasCode(text, code) ==
    \E k \in 1..(Len(text) - Len(code) + 1) : SubSeq(text, k, k + Len(code) - 1) = code
\* a text with a word-level highlight span
WordLevel(text) == HasCode(text, BG_RED_HL) \/ HasCode(text, BG_GREEN_HL)
\* The lines of a text as the units of the diff.  A unit of one text that
\* the other has too is common; between two common units lie the removed
\* units of the original and the added ones of the modification, and a
\* change is paired if both are there.
UnitsOf(text) == DiffLinesOf(text)
CommonBefore(units, other, n) == Cardinality({i \in 1..(n - 1) : units[i] \in Range(other)})
ChangedIn(units, other, n) == n >= 1 /\ n <= Len(units) /\ units[n] \notin Range(other)
PairedWith(units, other, n) ==
    /\ ChangedIn(units, other, n)
    /\ \E m \in 1..Len(other) :
           /\ ChangedIn(other, units, m)
           /\ CommonBefore(other, units, m) = CommonBefore(units, other, n)
InPairedChange(dl) ==
    \/ dl.op = -1 /\ PairedWith(UnitsOf(originalContent), UnitsOf(modifiedContent), dl.origLine)
    \/ dl.op = 1 /\ PairedWith(UnitsOf(modifiedContent), UnitsOf(originalContent), dl.modLine)

\* C34: word-level highlight spans are produced only for a Removed block
\* that an Added block follows at once: the lines of a Removed block not
\* followed by an Added block, of an Added block not preceded by a Removed
\* block and of the context carry no word-level highlight code, neither in
\* their text nor in the line rendered for them.
C34_WordLevelOnlyInPairs ==
    returned =>
        \A k \in 1..Len(diffLines) :
            ~InPairedChange(diffLines[k]) =>
                /\ ~diffLines[k].hl
                /\ ~WordLevel(diffLines[k].text)
                /\ ~WordLevel(LinePart(diffLines[k]).out)

\* a removed line with nothing added for it and an added line with nothing
\* removed for it, in one diff
C34_Witness ==
    /\ returned
    /\ \E k \in 1..Len(diffLines) : diffLines[k].op = -1 /\ ~InPairedChange(diffLines[k])
    /\ \E k \in 1..Len(diffLines) : diffLines[k].op = 1 /\ ~InPairedChange(diffLines[k])
    /\ \E k \in 2..Len(rendered) : rendered[k].kind = "line" /\ rendered[k].op = -1 /\ ~rendered[k].hl
    /\ \E k \in 2..Len(rendered) : rendered[k].kind = "line" /\ rendered[k].op = 1 /\ ~rendered[k].hl

(***************************************************************************)
(* Properties of sliceSyntax on the coloured texts of SpecColour.          *)
(***************************************************************************)

\* the two texts coloured as renderDiff colours them, lines joined again
ColouredTexts ==
    {JoinLf(SyntaxHighlight(originalContent, filePath)),
     JoinLf(SyntaxHighlight(modifiedContent, filePath))}
\* the slices of s between the cuts 0 <= a <= b <= n, one after the other
Recomposed(s, a, b, n) == SliceSyntax(s, 0, a) \o SliceSyntax(s, a, b) \o SliceSyntax(s, b, n)
\* the units of a text that are part of a paired change
PairedUnits(units, other) == {n \in 1..Len(units) : PairedWith(units, other, n)}
\* position i of s is within a colour code: from an ESC up to its first m
InCode(s, i) == \E j \in 1..i : s[j] = ESC /\ \A h \in j..(i - 1) : s[h] # 109
RECURSIVE Uncoded(_, _, _)
Uncoded(s, from, to) ==
    IF from > to THEN <<>>
    ELSE IF from = to THEN (IF InCode(s, from) THEN <<>> ELSE <<s[from]>>)
    ELSE Uncoded(s, from, (from + to) \div 2) \o Uncoded(s, (from + to) \div 2 + 1, to)
\* a string without its colour codes
WithoutCodes(s) == Uncoded(s, 1, Len(s))

\* C35: for a coloured string whose escape sequences are colour codes and
\* 0 <= start <= end <= its plain length, sliceSyntax(s, start, end) without
\* its colour codes is the characters [start, end) of s without its colour
\* codes; the slices of consecutive ranges that partition the text, put
\* together, have the whole plain text, and the recomposed block of a paired
\* change splits into as many lines as the block has.
C35_SliceIsPlainRange ==
    returned =>
        /\ \A s \in ColouredTexts : \A p \in {WithoutCodes(s)} :
               \A start \in 0..Len(p) : \A end \in start..Len(p) :
                   /\ WithoutCodes(SliceSyntax(s, start, end)) = Slice(p, start, end)
                   /\ WithoutCodes(Recomposed(s, start, end, Len(p))) = p
        /\ Len(PairedOld) = Cardinality(PairedUnits(UnitsOf(originalContent), UnitsOf(modifiedContent)))
        /\ Len(PairedNew) = Cardinality(PairedUnits(UnitsOf(modifiedContent), UnitsOf(originalContent)))

\* a paired change of two lines against one, with coloured numbers, sliced
\* at the ends of its changed range within a number
C35_Witness ==
    /\ returned
    /\ Len(PairedOld) = 2 /\ Len(PairedNew) = 1
    /\ \E s \in ColouredTexts : s # WithoutCodes(s)
    /\ \E k \in 1..Len(diffLines) :
           /\ diffLines[k].hl
           /\ WordLevel(diffLines[k].text)
           /\ HasCode(diffLines[k].text, NUMBER_OPEN)

(***************************************************************************)
(* Properties of the DiffLines as a whole (SpecDiff).                      *)
(***************************************************************************)

\* the lines of a text: those its newlines end, and what follows the last
LinesOfText(text) ==
    IF text = <<>> THEN <<>>
    ELSE IF text[Len(text)] = LF THEN Split(SubSeq(text, 1, Len(text) - 1), LF)
    ELSE Split(text, LF)
\* the texts of the DiffLines with one of the operations ops, without codes
PlainLines(ops) ==
    [k \in 1..Len(SelectSeq(diffLines, LAMBDA dl : dl.op \in ops)) |->
        WithoutCodes(SelectSeq(diffLines, LAMBDA dl : dl.op \in ops)[k].text)]

\* C36: the plain texts of the Context and Removed DiffLines, in order, are
\* the lines of the original, and those of the Context and Added DiffLines
\* the lines of the modified text: no line is lost, duplicated or reordered,
\* whether or not a text ends with a newline.
C36_DiffLinesAreTheTexts ==
    returned =>
        /\ PlainLines({0, -1}) = LinesOfText(originalContent)
        /\ PlainLines({0, 1}) = LinesOfText(modifiedContent)

\* context, removed and added lines and an empty one, of an original that
\* ends with a newline and a modification that does not
C36_Witness ==
    /\ returned
    /\ EndsWithLf(originalContent) /\ ~EndsWithLf(modifiedContent)
    /\ \A op \in {-1, 0, 1} : \E k \in 1..Len(diffLines) : diffLines[k].op = op
    /\ \E k \in 1..Len(diffLines) : diffLines[k].text = <<>>
    /\ \E k \in 1..Len(diffLines) : diffLines[k].hl
    /\ Len(diffLines) >= 6

(***************************************************************************)
(* Properties of the messages interactiveLoop sends (SpecWatch).           *)
(***************************************************************************)

\* the editing session of the loop ends in this step, and not because a
\* message of the server cancelled it
SessionEnds == loopAt = "prompt" /\ ~done /\ done' /\ nmsgs' = nmsgs
Commands == ExitWords \cup HelpWords

\* C37: interactiveLoop sends a message only for a submitted input that is
\* not empty after trimming and is neither an exit nor a help command; each
\* such submission sends exactly one message, and one call of watchTodo
\* follows it; an exit command or an error (a cancelled prompt, a failed
\* addMessage) ends the loop and nothing is sent.
C37_OneMessagePerSubmission ==
    [][/\ hist'.sent # hist.sent =>
              /\ SessionEnds
              /\ promise' = Resolve(Pending, Trim(buf))
              /\ Trim(buf) # <<>> /\ Trim(buf) \notin Commands
              /\ hist'.sent = Append(hist.sent, Trim(buf))
              /\ loopAt' = "adding"
       /\ (SessionEnds /\ promise'.state = "resolved" /\ promise'.value \notin Commands) =>
              /\ Len(hist'.sent) = Len(hist.sent) + 1
              /\ loopAt' = "adding"
       /\ (loopAt = "adding" /\ loopAt' # "adding") =>
              /\ hist'.sent = hist.sent
              /\ \/ loopAt' = "watching" /\ calls' = calls + 1
                 \/ loopAt' = "exited" /\ calls' = calls
       /\ (SessionEnds /\ (promise'.state = "rejected" \/ promise'.value \in ExitWords)) =>
              /\ loopAt' = "exited"
              /\ hist'.sent = hist.sent
       /\ loopAt = "exited" => (loopAt' = "exited" /\ hist'.sent = hist.sent)]_vars

\* "a" was submitted and sent, and watchTodo runs for it
C37_Witness ==
    /\ hist.sent = << <<97>> >>
    /\ loopAt = "watching"
    /\ calls = 1
    /\ watches[1].replayMessages = <<>>

(***************************************************************************)
(* Properties of the answers to the approval prompt (SpecWatch).           *)
(***************************************************************************)

\* the decision the answer to a prompt stands for
DecisionOf(response) ==
    IF response \in {<<97>>, <<121>>, <<>>} THEN "allow_once"
    ELSE IF response = <<114>> THEN "allow_remember"
    ELSE "deny"
\* the decisions that the answers and automatic approvals noted from the
\* k-th on call for
RECURSIVE DecisionsCalledFor(_)
DecisionsCalledFor(k) ==
    IF k > Len(hist.answers) THEN <<>>
    ELSE [j \in 1..Len(hist.answers[k].blocks) |->
             [watch |-> hist.answers[k].watch, block |-> hist.answers[k].blocks[j],
              decision |-> IF hist.answers[k].auto THEN "allow_once"
                           ELSE DecisionOf(hist.answers[k].response)]]
         \o DecisionsCalledFor(k + 1)
\* the user has answered a prompt of the i-th watchTodo with "a"
AnsweredAll(i) ==
    \E k \in 1..Len(hist.answers) :
        /\ hist.answers[k].watch = i
        /\ ~hist.answers[k].auto
        /\ hist.answers[k].response = <<97>>

\* C38: once the user has answered "a", every block that awaits approval
\* later in the same watchTodo call is approved at once with allow_once and
\* without a prompt; "y" and Enter approve once, "r" approves with
\* allow_remember, any other answer denies, and the one answer goes for
\* every block of the batch that was prompted for.
C38_AnswersDecideTheBatch ==
    /\ sentDecisions = DecisionsCalledFor(1)
    /\ \A k \in 1..Len(hist.answers) : hist.answers[k].blocks # <<>>
    /\ \A i \in 1..MaxCalls :
           AnsweredAll(i) =>
               /\ PromptsOf(i) = 0
               /\ watches[i].pendingBlocks = <<>> /\ watches[i].blocks = <<>>
               /\ \A n \in 1..MaxMsgs : AwaitsApproval(i, n) => DecisionsFor(i, n) = 1
               /\ \A k \in 1..Len(hist.answers) : \A j \in (k + 1)..Len(hist.answers) :
                      (hist.answers[k].watch = i /\ ~hist.answers[k].auto
                           /\ hist.answers[k].response = <<97>> /\ hist.answers[j].watch = i)
                      => hist.answers[j].auto
    /\ \A j \in 1..Len(hist.answers) :
           hist.answers[j].auto => (autoApprove \/ AnsweredAll(hist.answers[j].watch))

\* "a" answered for the first block, the second approved without a prompt
C38_Witness ==
    /\ ~autoApprove
    /\ hist.answers = << [watch |-> 1, response |-> <<97>>, auto |-> FALSE, blocks |-> <<1>>],
                         [watch |-> 1, response |-> <<>>, auto |-> TRUE, blocks |-> <<2>>] >>
    /\ sentDecisions = << [watch |-> 1, block |-> 1, decision |-> "allow_once"],
                          [watch |-> 1, block |-> 2, decision |-> "allow_once"] >>

(***************************************************************************)
(* Properties of Ctrl+C during watchTodo (SpecWatch).                      *)
(***************************************************************************)

Occurrences(ids, i) == Cardinality({k \in 1..Len(ids) : ids[k] = i})

\* C39: during a watchTodo call the first SIGINT sends exactly one interrupt
\* request and does not exit; the second SIGINT ends the process with exit
\* code 130 and sends no other interrupt request.
C39_InterruptThenForceExit ==
    [][\A i \in 1..MaxCalls :
           /\ Occurrences(hist'.interrupts, i) <= 1
           /\ Occurrences(hist'.interrupts, i) # Occurrences(hist.interrupts, i)
                  => Occurrences(hist'.signals, i) = Occurrences(hist.signals, i) + 1
           /\ Occurrences(hist'.signals, i) = Occurrences(hist.signals, i) + 1 =>
                  IF Occurrences(hist.signals, i) = 0
                  THEN /\ Occurrences(hist.interrupts, i) = 0
                       /\ Occurrences(hist'.interrupts, i) = 1
                       /\ ~exited' /\ hist'.exit = "none"
                       /\ loopAt' = "watching"
                  ELSE /\ Occurrences(hist.signals, i) = 1
                       /\ hist'.interrupts = hist.interrupts
                       /\ exited' /\ hist'.exit = "130"]_vars

\* Ctrl+C twice during the one call: one interrupt request, then the exit
C39_Witness ==
    /\ hist.signals = <<1, 1>>
    /\ hist.interrupts = <<1>>
    /\ exited /\ hist.exit = "130"
    /\ watches[1].interruptCount = 2

(***************************************************************************)
(* Properties of the recent lists of ConfigStore (SpecConfig).             *)
(***************************************************************************)

NoTwo(ids) == \A j, k \in 1..Len(ids) : j # k => ids[j] # ids[k]
ProjectsOf(d) == [k \in 1..Len(d.recent_projects) |-> d.recent_projects[k].id]
\* a list after a call: the one set first, then the others as they were, the
\* last one left out if there would be more than ten
SetFirst(old, new) ==
    /\ new # <<>>
    /\ Len(new) = Min(10, 1 + Len(SelectSeq(old, LAMBDA x : x # new[1])))
    /\ IsPrefix(Tail(new), SelectSeq(old, LAMBDA x : x # new[1]))

\* C40: from the default config on, after any calls of setDefaultProject and
\* setDefaultAgent the list of the recent projects (of the recent agents)
\* has at most 10 entries, no two with the same id (name), the one set most
\* recently first, and its first entry is the default project (agent).
C40_RecentLists ==
    /\ [](/\ Len(data.recent_projects) <= 10 /\ Len(data.recent_agents) <= 10
          /\ NoTwo(ProjectsOf(data)) /\ NoTwo(data.recent_agents)
          /\ IF data.recent_projects = <<>> THEN data.default_project_id = Null
             ELSE /\ data.recent_projects[1].id = data.default_project_id
                  /\ data.recent_projects[1].name = data.default_project_name
          /\ IF data.recent_agents = <<>> THEN data.default_agent_name = Null
             ELSE data.recent_agents[1] = data.default_agent_name
          /\ nsets > 0 => saved = data)
    /\ [][/\ \/ data'.recent_projects = data.recent_projects
             \/ /\ SetFirst(ProjectsOf(data), ProjectsOf(data'))
                /\ data'.recent_agents = data.recent_agents
          /\ \/ data'.recent_agents = data.recent_agents
             \/ /\ SetFirst(data.recent_agents, data'.recent_agents)
                /\ data'.recent_projects = data.recent_projects]_vars

\* eleven projects were set and the oldest left in the list set again
C40_Witness ==
    /\ issued.projects = 11
    /\ Len(data.recent_projects) = 10
    /\ ProjectsOf(data) = <<2, 11, 10, 9, 8, 7, 6, 5, 4, 3>>
    /\ data.default_project_id = 2

====
